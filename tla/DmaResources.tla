----------------------------- MODULE DmaResources -----------------------------
(* What plain_doca/dma_client and plain_doca/dma_server acquire and release. *)
EXTENDS Resources

open_progress_engine == Opens("pe", <<"get_notification_handle", "epoll_ctl">>)

open_device == Picks("dev", "dev_list")

open_memory_map(r) == Opens(r, <<"set_memrange", "set_permissions", "add_dev", "start">>)

open_buffer_inventory == Opens("inv", <<"start">>)

-----------------------------------------------------------------------------
(* The client. *)

open_client_context ==
    Opens("client", <<"set_max_msg_size", "set_recv_queue_size", "set_user_data",
                      "set_state_changed_cb", "task_send_set_conf",
                      "event_msg_recv_register", "connect_ctx", "start">>)

receive_dma ==
    Gets("epoll")
    \o Under(open_progress_engine, <<"epoll">>)
    \o Under(open_device, <<"pe", "epoll">>)
    \o Under(open_client_context, <<"dev", "pe", "epoll">>)

ClientCleanUp == <<"storage", "client", "dev", "pe", "epoll">>

create_cache_aligned_buffer == Gets("storage")

destroy_dma_state == <<"inv", "remote_mmap", "local_mmap", "dma_state">>

\* What destroy_dma_state does not find is skipped.
NullChecked == {"inv", "remote_mmap", "local_mmap"}

attach_dma_state ==
    create_cache_aligned_buffer
    \o Under(Gets("dma_state"), <<"storage">>)
    \o Under(open_memory_map("local_mmap")
             \o Gets("remote_mmap") \o Calls(<<"get_memrange">>)
             \o open_buffer_inventory \o Calls(<<"set_user_data">>),
             destroy_dma_state \o <<"storage">>)

\* From attach_dma_state on, the storage is the client's, which frees it in the
\* end.
open_dma_context ==
    Opens("dma", <<"set_state_changed_cb", "memcpy_set_conf", "connect_ctx">>)
    \o Under(attach_dma_state, <<"dma">>)
    \o Under(Calls(<<"start">>), destroy_dma_state \o <<"dma">>)

client_msg_recv == Calls(<<"get_user_data">>) \o open_dma_context

\* Mutant: a task that cannot be allocated jumps past the second buffer.
WrongLabel ==
    Gets("buf_in")
    \o Under(Gets("buf_out"), <<"buf_in">>)
    \o Under(Gets("task"), <<"buf_in">>)
    \o Under(Calls(<<"submit">>), <<"task", "buf_out", "buf_in">>)

fetch_next_block ==
    Gets("buf_in")
    \o Under(Gets("buf_out"), <<"buf_in">>)
    \o Under(Gets("task"), <<"buf_out", "buf_in">>)
    \o Under(Calls(<<"submit">>), <<"task", "buf_out", "buf_in">>)

send_done_message == Calls(<<"get_connection">>) \o Opens("send", <<"submit">>)

-----------------------------------------------------------------------------
(* The server. *)

open_device_representor == Picks("rep", "rep_list")

open_server_context ==
    Opens("server", <<"set_user_data", "set_max_msg_size", "set_recv_queue_size",
                      "set_state_changed_cb", "event_connection_status_changed_register",
                      "task_send_set_conf", "event_msg_recv_register", "connect_ctx", "start">>)

create_test_data == Gets("data")

serve_dma ==
    Gets("epoll")
    \o Under(open_progress_engine, <<"epoll">>)
    \o Under(open_device, <<"pe", "epoll">>)
    \o Under(open_device_representor, <<"dev", "pe", "epoll">>)
    \o Under(open_server_context, <<"rep", "dev", "pe", "epoll">>)

ServerCleanUp == <<"server", "rep", "dev", "pe", "epoll", "data">>

create_extents_msg == Gets("msg")

create_connection_state == Gets("conn_state")

\* What the connection then points to is not taken back when a later call fails.
set_user_data == Gets("user_data")

\* After the server has been looked up; the message is freed once it is handed
\* to DOCA.
connection_calls ==
    Calls(<<"get_user_data", "get_device">>)
    \o open_memory_map("mmap")
    \o Under(Calls(<<"export_pci">>) \o create_extents_msg, <<"mmap">>)
    \o Under(create_connection_state, <<"msg", "mmap">>)
    \o Under(set_user_data \o Opens("send", <<>>), <<"conn_state", "msg", "mmap">>)
    \o <<Row({}, {"msg"}, <<"send", "conn_state", "msg", "mmap">>)>>

destroy_connection_state == <<"mmap", "conn_state">>

-----------------------------------------------------------------------------

ClientOutcomes == Outcomes(receive_dma, {})
ServerOutcomes == Outcomes(create_test_data \o Under(serve_dma, <<"data">>), {})
OpenOutcomes == Outcomes(client_msg_recv, NullChecked)
FetchOutcomes == Outcomes(fetch_next_block, {})
DoneOutcomes == Outcomes(send_done_message, {})
ConnectionOutcomes == Outcomes(connection_calls, {})
=============================================================================
