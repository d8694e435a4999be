-------------------------- MODULE DispatchChannel --------------------------
(***************************************************************************)
(* What the dispatch path may expect of the printer link, per mailbox: the *)
(* answer the cached printer state gives to eligible, and who listens on   *)
(* mailbox:<id>:dispatch.  Module PrinterLink is checked to keep to it     *)
(* (KeepsTheChannel); module Dispatch takes its steps for the link's.      *)
(***************************************************************************)
CONSTANT Mailbox   \* printer units

VARIABLES
    breaks,  \* connections may be lost
    open,    \* the cached state leaves room in the slot
    link     \* "up": the live socket's handler is subscribed; "stale": only
             \* handlers of sockets that are gone are; "down": nobody is

channelVars == <<open, link>>

Init ==
    /\ breaks \in BOOLEAN
    /\ open = [m \in Mailbox |-> FALSE]
    /\ link = [m \in Mailbox |-> "down"]

Becomes(m, l) == link' = [link EXCEPT ![m] = l] /\ UNCHANGED open

\* The newest connection's handler subscribes.
Subscribe(m) == link[m] # "up" /\ Becomes(m, "up")

\* A handler subscribes whose socket has gone meanwhile.
SubscribeDead(m) == breaks /\ link[m] = "down" /\ Becomes(m, "stale")

\* A handler caches what a frame says.  It has subscribed before its first.
Cache(m) ==
    /\ link[m] # "down"
    /\ \E e \in BOOLEAN : open' = [open EXCEPT ![m] = e]
    /\ UNCHANGED link

\* The cached state expires: a slot nothing is known of is not eligible.
Expire(m) ==
    /\ open[m] /\ open' = [open EXCEPT ![m] = FALSE]
    /\ UNCHANGED link

\* The live socket goes, with its handler or leaving it behind ...
Break(m) ==
    /\ breaks /\ link[m] = "up"
    /\ \E l \in {"down", "stale"} : Becomes(m, l)

\* ... until that one finds out.
NoticeBreak(m) == link[m] = "stale" /\ Becomes(m, "down")

Next ==
    /\ \E m \in Mailbox :
          \/ Subscribe(m) \/ SubscribeDead(m) \/ Cache(m)
          \/ Expire(m) \/ Break(m) \/ NoticeBreak(m)
    /\ UNCHANGED breaks

Spec == Init /\ [][Next]_<<breaks, channelVars>>
=============================================================================
