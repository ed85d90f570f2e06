--------------------------- MODULE MCLinkMonitor ----------------------------
(* Instance of LinkMonitor for TLC.  A unit of time is the watchdog's 250 ms; the
   sample period is the source's, the timeout is shortened.  A long stall is
   longer than a sample period, so deadlines are missed. *)
EXTENDS LinkMonitor
MCRejects == {"crc", "malformed", "foreign"}
MCStalls == {0, 5}
MCShortStalls == {0, 1}
MCDamaged == {"crc"}
MCNumbers == {0, 4}
=============================================================================
