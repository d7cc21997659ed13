---------------------------- MODULE MC_SpdkQueue ----------------------------
EXTENDS SpdkQueue

CONSTANTS l1, a1, stopper

\* A poller posting EVT_IO_REQ with post_event_locked, an AIO
\* completion thread posting EVT_IO_COMPLETE with post_event.
MCProducers == {l1, a1}
MCLocked == {l1}

\* One thread with plain post_event only.
MCPlainProducers == {a1}
MCNoLocked == {}
=============================================================================
