------------------------------- MODULE MCHelper -------------------------------
(* The PAM helper on one account and two cameras, with files that exercise   *)
(* every kind of setting and requests that reach every gate.                 *)
EXTENDS Helper

\* A flat key, a group's key and a preset; one value each.
Keys(f) == [s \in Settings |-> IF s \in DOMAIN f THEN f[s] ELSE Unset]
File(flat, group, preset) == [flat |-> Keys(flat), group |-> Keys(group), preset |-> preset]
None == [s \in {} |-> 0]

MCSystemFiles ==
  {File([threshold |-> 70, start_delay |-> 2],
        [start_delay |-> 0, require_confirmation |-> 1, abort_if_lid_closed |-> 1], "strict"),
   File([pinned |-> 1, bind_camera |-> 0], [seat_check |-> 1, start_delay |-> 2, start_delay_all |-> 1],
        "none"),
   File([threshold |-> 20], None, "none"),
   File([bind_camera |-> 0], None, "other")}

MCUserFiles ==
  {File([threshold |-> 80, motion |-> 101, scan_duration |-> 30, grace |-> 200],
        [residual |-> 40, require_confirmation |-> 0], "strict"),
   File([threshold |-> 30, bind_camera |-> 0, pinned |-> 0],
        [seat_check |-> 0, start_delay |-> 0], "off"),
   File([threshold |-> 101], None, "other")}

Request(account, caller, remote, server, tty, surface, age) ==
  [account |-> account, caller |-> caller, remote |-> remote, server |-> server,
   unread |-> 0, tty |-> tty, surface |-> surface, age |-> age]
BySudo(server) == Request("known", "target", FALSE, server, TRUE, "Elevation", -1)

MCRequests ==
  {Request("known", "root", FALSE, 0, FALSE, "ScreenLock", l) : l \in {-1, 0, 1}}
    \cup {Request("known", "target", FALSE, 0, FALSE, "Elevation", -1),
          Request("known", "root", FALSE, 0, TRUE, "Login", 0),
          Request("known", "target", TRUE, 0, TRUE, "Elevation", -1),
          BySudo(2), BySudo(MAX_ANCESTRY_DEPTH + 1), [BySudo(0) EXCEPT !.unread = 3],
          Request("known", "other", FALSE, 0, TRUE, "Elevation", -1),
          Request("unknown", "root", FALSE, 0, FALSE, "Login", -1),
          Request("unset", "root", FALSE, 0, FALSE, "Login", -1)}

\* A world in which everything is well, and one for each thing that is not.
Well == [seat |-> "target", closed |-> FALSE, plugged |-> PinnedCamera,
         locked |-> FALSE, templates |-> TRUE]
MCWorlds ==
  {Well, [Well EXCEPT !.closed = TRUE], [Well EXCEPT !.locked = TRUE],
   [Well EXCEPT !.templates = FALSE]}
    \cup {[Well EXCEPT !.seat = s] : s \in Seats}
    \cup {[Well EXCEPT !.plugged = c] : c \in Cameras}
    \cup {[Well EXCEPT !.closed = TRUE, !.plugged = c] : c \in External}
=============================================================================
