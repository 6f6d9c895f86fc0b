---------------------------- MODULE DataResources ----------------------------
(* What plain_doca/comch_data_client and comch_data_server acquire and
   release. *)
EXTENDS Resources

open_progress_engine == Opens("pe", <<"get_notification_handle", "epoll_ctl">>)

open_memory_map == Opens("mmap", <<"set_memrange", "set_permissions", "add_dev", "start">>)

open_buffer_inventory == Opens("inv", <<"start">>)

-----------------------------------------------------------------------------
(* The client. *)

open_client_device == Picks("dev", "dev_list")

open_client_context ==
    Opens("client", <<"set_state_changed_cb", "set_user_data", "set_max_msg_size",
                      "set_recv_queue_size", "event_msg_recv_register",
                      "task_send_set_conf", "connect_ctx", "start">>)

receive_datastream ==
    Gets("epoll")
    \o Under(open_progress_engine, <<"epoll">>)
    \o Under(open_client_device, <<"pe", "epoll">>)
    \o Under(open_client_context, <<"dev", "pe", "epoll">>)

\* The storage is freed even if there never was any.
ClientCleanUp == <<"storage", "client", "dev", "pe", "epoll">>

\* The result of malloc is written to without a check, which is noted here as a
\* use of storage that is not held.
create_cache_aligned_storage == Under(Gets("storage"), <<"storage">>)

create_consumer_state ==
    Gets("consumer_state")
    \o Under(open_memory_map, <<"consumer_state">>)
    \o Under(open_buffer_inventory, <<"mmap", "consumer_state">>)

destroy_consumer_state == <<"inv", "mmap", "consumer_state">>

open_consumer ==
    Opens("consumer", <<"set_user_data", "set_state_changed_cb", "post_recv_set_conf",
                        "connect_ctx", "start">>)

\* Up to here a failure leaves client_state->result alone.
spawn_consumer ==
    Calls(<<"get_client_ctx", "get_user_data">>)
    \o create_cache_aligned_storage
    \o Under(create_consumer_state, <<"storage">>)

receive_next_block ==
    Gets("buf_out")
    \o Under(Gets("task"), <<"buf_out">>)
    \o Under(Calls(<<"submit">>), <<"task", "buf_out">>)

-----------------------------------------------------------------------------
(* The server. *)

open_server_device == Picks("dev", "dev_list")

open_server_device_representor == Picks("rep", "rep_list")

create_server_state ==
    Gets("server_state")
    \o Under(open_memory_map, <<"server_state">>)
    \o Under(open_buffer_inventory, <<"mmap", "server_state">>)

\* After a late failure only the structure itself is freed, not the memory map
\* and the inventory in it.
open_server_context ==
    Gets("server")
    \o Under(create_server_state, <<"server">>)
    \o Under(Calls(<<"set_user_data", "set_max_msg_size", "set_recv_queue_size",
                     "set_state_changed_cb", "event_connection_status_changed_register",
                     "event_consumer_register", "task_send_set_conf",
                     "event_msg_recv_register", "connect_ctx", "start">>),
             <<"server_state", "server">>)

main == Gets("data")

serve_datastream ==
    Gets("epoll")
    \o Under(open_progress_engine, <<"epoll">>)
    \o Under(open_server_device, <<"pe", "epoll">>)
    \o Under(open_server_device_representor, <<"dev", "pe", "epoll">>)
    \o Under(open_server_context, <<"rep", "dev", "pe", "epoll">>)

\* The server state is not among what is released at the end.
ServerCleanUp == <<"server", "rep", "dev", "pe", "epoll", "data">>

open_producer ==
    Opens("producer", <<"set_state_changed_cb", "set_user_data", "task_send_set_conf",
                        "connect_ctx", "start">>)

create_connection_state ==
    Calls(<<"get_user_data">>)
    \o Gets("conn_state")
    \o Under(open_producer, <<"conn_state">>)

send_data_extents == Opens("send", <<"submit">>)

\* What the connection then points to is not taken back when a later call fails.
set_user_data == Gets("user_data")

\* DOCA does not destroy the producer while it runs, which it does by then.
connection_calls ==
    Calls(<<"get_user_data">>)
    \o create_connection_state
    \o Under(set_user_data \o send_data_extents, <<"conn_state">>)

send_next_data_buffer ==
    Gets("buf_in")
    \o Under(Gets("task"), <<"buf_in">>)
    \o Under(Calls(<<"submit">>), <<"task", "buf_in">>)

-----------------------------------------------------------------------------

ClientOutcomes == Outcomes(receive_datastream, {})
ServerOutcomes == Outcomes(main \o Under(serve_datastream, <<"data">>), {})
SpawnOutcomes == Outcomes(spawn_consumer, {})
ConsumerOutcomes == Outcomes(open_consumer, {})
ReceiveOutcomes == Outcomes(receive_next_block, {})
ConnectionOutcomes == Outcomes(connection_calls, {})
BufferOutcomes == Outcomes(send_next_data_buffer, {})
=============================================================================
