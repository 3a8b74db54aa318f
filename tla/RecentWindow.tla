---------------------------- MODULE RecentWindow ----------------------------
(***************************************************************************)
(* A history of what a fixed-window limiter let through in the last        *)
(* window's length, oldest first: for each event the ticks until it is a   *)
(* window's length ago, and the limit under which it passed.  The limiters *)
(* of common/ratelimit and of matrix.send_message are held against it.     *)
(***************************************************************************)
EXTENDS Naturals, Sequences, FiniteSetsExt

Passed(recent, length, limit) == Append(recent, [left |-> length, max |-> limit])

(* A tick: the oldest events, those with one tick left, are forgotten.     *)
Lapse(recent) ==
    LET gone == Max({0} \cup {i \in DOMAIN recent : recent[i].left = 1})
    IN  [i \in 1..Len(recent) - gone |-> [left |-> recent[i + gone].left - 1, max |-> recent[i + gone].max]]

(* Two windows' worth of some limit in force meanwhile.                    *)
WithinTwoWindows(recent) ==
    recent # <<>> => \E j \in DOMAIN recent : Len(recent) <= 2 * recent[j].max
=============================================================================
