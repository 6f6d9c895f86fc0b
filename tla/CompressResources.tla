-------------------------- MODULE CompressResources --------------------------
(* What the compression programs acquire and release. *)
EXTENDS Resources

open_progress_engine == Opens("pe", <<"get_notification_handle", "epoll_ctl">>)

open_compress_device == Picks("dev", "dev_list")

open_memory_map(r) == Opens(r, <<"set_memrange", "set_permissions", "add_dev", "start">>)

open_compress_context ==
    Opens("compress", <<"set_state_changed_cb", "set_user_data", "set_conf", "connect_ctx", "start">>)

\* main and compress_file (with an output file): two files, two buffers and the
\* array of regions.  The buffers are freed together, whichever could not be
\* allocated.
Buffers == <<"region_buffer", "inbuf", "outbuf">>

main == Gets("in") \o Under(Gets("out"), <<"in">>)

compress_file ==
    Under(Gets("inbuf") \o Gets("outbuf") \o Gets("region_buffer") \o Calls(<<"fread">>), Buffers)

\* The second memory map is not checked: the code looks at the first one again.
compress_buffers ==
    Gets("epoll")
    \o Under(open_progress_engine, <<"epoll">>)
    \o Under(open_compress_device, <<"pe", "epoll">>)
    \o Under(open_memory_map("mmap_in"), <<"dev", "pe", "epoll">>)
    \o Unchecked(Gets("mmap_out"))
    \o Under(Gets("inv"), <<"mmap_out", "mmap_in", "dev", "pe", "epoll">>)
    \o Under(Calls(<<"inventory_start">>) \o open_compress_context,
             <<"inv", "mmap_out", "mmap_in", "dev", "pe", "epoll">>)

Files == <<"out", "in">>

SetUp ==
    main \o Under(compress_file, Files) \o Under(compress_buffers, Buffers \o Files)

CleanUp ==
    <<"compress", "inv", "mmap_out", "mmap_in", "dev", "pe", "epoll">> \o Buffers \o Files

\* free(NULL) is a no-op.
Optional == Range(Buffers)

SetUpOutcomes == Outcomes(SetUp, Optional)

offload_next ==
    Gets("buf_in")
    \o Under(Gets("buf_out"), <<"buf_in">>)
    \o Under(Gets("task"), <<"buf_out", "buf_in">>)
    \o Under(Calls(<<"submit">>), <<"task", "buf_out", "buf_in">>)

OffloadOutcomes == Outcomes(offload_next, {})
=============================================================================
