------------------------ MODULE MCNotificationOutbox ------------------------
(***************************************************************************)
(* Small instances of NotificationOutbox for TLC.                          *)
(***************************************************************************)
EXTENDS NotificationOutbox

CONSTANTS r1, r2, ann, bob, x, y, d1, d2

MCReq   == {r1, r2}
MCUser  == {ann, bob}
MCChat  == {x, y}
MCDrain == {d1, d2}

Unlinked == [u \in MCUser |-> {}]
Linked   == [Unlinked EXCEPT ![ann] = {x}]

\* One request at a time: codes, links, deactivated accounts.
Serial == [calls |-> {"code", "start", "unlink", "code expires", "deactivate"},
           slots |-> {r1}, codes |-> 2, linked |-> Linked, drains |-> {}, mortal |-> {}, notes |-> 0]

\* Two requests at a time: two people, or two taps on one link.
Links == [Serial EXCEPT !.calls = {"code", "start", "unlink"}, !.slots = {r1, r2},
                        !.linked = Unlinked]

\* Two drains that overlap, and a process that may end.
Drains == [calls |-> {"notify"}, slots |-> {}, codes |-> 0, linked |-> Linked,
           drains |-> {d1, d2}, mortal |-> {d1}, notes |-> 2]

\* A drain while people link and unlink their chats.
Both == [calls |-> {"notify", "code", "start", "unlink"}, slots |-> {r1}, codes |-> 1,
         linked |-> Linked, drains |-> {d1}, mortal |-> {}, notes |-> 1]

MCScenarios == {Serial, Links, Drains, Both}
=============================================================================
