---------------------------- MODULE PingResources ----------------------------
(* What plain_doca/comch_client.c and comch_server.c acquire and release. *)
EXTENDS Resources

open_progress_engine == Opens("pe", <<"get_notification_handle", "epoll_ctl">>)

open_client_device == Picks("dev", "dev_list")

open_client_context ==
    Opens("client", <<"set_max_msg_size", "set_recv_queue_size", "set_user_data",
                      "set_state_changed_cb", "task_send_set_conf",
                      "event_msg_recv_register", "connect_ctx", "start">>)

client_ping_pong ==
    Gets("epoll")
    \o Under(open_progress_engine, <<"epoll">>)
    \o Under(open_client_device, <<"pe", "epoll">>)
    \o Under(open_client_context, <<"dev", "pe", "epoll">>)

\* Mutant: the device goes first.
DeviceFirst == <<"dev", "client", "pe", "epoll">>

ClientCleanUp == <<"client", "dev", "pe", "epoll">>

\* send_ping: the connection is looked up, the task allocated and submitted.
send_ping == Calls(<<"get_connection">>) \o Opens("send", <<"submit">>)

open_server_device == Picks("dev", "dev_list")

open_server_device_representor == Picks("rep", "rep_list")

open_server_context ==
    Opens("server", <<"set_max_msg_size", "set_recv_queue_size",
                      "event_connection_status_changed_register", "task_send_set_conf",
                      "event_msg_recv_register", "connect_ctx", "start">>)

serve_ping_pong ==
    Gets("epoll")
    \o Under(open_progress_engine, <<"epoll">>)
    \o Under(open_server_device, <<"pe", "epoll">>)
    \o Under(open_server_device_representor, <<"dev", "pe", "epoll">>)
    \o Under(open_server_context, <<"rep", "dev", "pe", "epoll">>)

ServerCleanUp == <<"server", "rep", "dev", "pe", "epoll">>

send_pong == Opens("send", <<"submit">>)

ClientOutcomes == Outcomes(client_ping_pong, {})
ServerOutcomes == Outcomes(serve_ping_pong, {})
PingOutcomes == Outcomes(send_ping, {})
PongOutcomes == Outcomes(send_pong, {})
=============================================================================
