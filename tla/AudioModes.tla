----------------------------- MODULE AudioModes -----------------------------
(* What the player promises about its audio modes, numbered by priority:    *)
(* one mode streams to devices at a time and is entered through IN_TRANSIT;  *)
(* a mode may interrupt one of at most its own priority, which is then       *)
(* remembered (one is) and resumed at most once, when the mode that          *)
(* interrupted it ends; nothing begins while a mode ends; and only the end   *)
(* of a call may stop what has a higher priority than what comes next.       *)
EXTENDS Integers

CONSTANTS
    NONE, BROADCAST, CALL, IN_TRANSIT,
    UnicastModes   \* the modes that stream to connected devices, CALL is one

VARIABLES
    mode,     \* the mode that is on
    next,     \* outside a transition the same, in one the mode to come
    paused,   \* the mode to resume
    calling   \* there is a call, ringing or not yet connected included

vars == <<mode, next, paused, calling>>

Init == mode = NONE /\ next = NONE /\ paused = NONE /\ calling = FALSE

\* The host or a peer starts mode m; a call that begins exists.
Begin(m) ==
    /\ \/ mode = NONE
       \/ next \in UnicastModes /\ next <= m
    /\ mode' = IN_TRANSIT
    /\ next' = m
    /\ paused' = IF mode \in UnicastModes THEN mode ELSE paused
    /\ calling' = (calling \/ m = CALL)

\* A mode is stopped.
End ==
    /\ next \in UnicastModes
    /\ mode' = IN_TRANSIT
    /\ next' = NONE
    /\ UNCHANGED <<paused, calling>>

\* What was interrupted comes next, and is forgotten as interrupted.
Resume ==
    /\ paused # NONE
    /\ mode' = IN_TRANSIT
    /\ next' = paused
    /\ paused' = NONE

\* The streams of the mode that was stopped are gone.
Return ==
    /\ mode = IN_TRANSIT /\ next = NONE
    /\ Resume
    /\ UNCHANGED calling

\* A transition ends in the mode it was for.
Complete ==
    /\ mode = IN_TRANSIT
    /\ mode' = next
    /\ UNCHANGED <<next, paused, calling>>

\* A call is placed, without a mode yet.
Dial ==
    /\ ~calling
    /\ calling' = TRUE
    /\ UNCHANGED <<mode, next, paused>>

\* A call is terminated, whichever mode is on; without a stream of its own it
\* ends at once.
HangUp ==
    /\ calling
    /\ calling' = FALSE
    /\ \/ mode' = IN_TRANSIT /\ next' = NONE /\ UNCHANGED paused
       \/ paused = NONE /\ mode' = NONE /\ next' = NONE /\ UNCHANGED paused
       \/ Resume

\* A broadcast starts, without a transition.
OnAir ==
    /\ mode = NONE
    /\ mode' = BROADCAST
    /\ next' = BROADCAST
    /\ UNCHANGED <<paused, calling>>

\* Everything ends at once: a broadcast is stopped, an error or the loss of
\* the last link resets the modes, the interrupted one too.
Abandon ==
    /\ mode' = NONE
    /\ next' = NONE
    /\ paused' \in {paused, NONE}
    /\ UNCHANGED calling

Next ==
    \/ \E m \in UnicastModes : Begin(m)
    \/ End \/ Return \/ Complete \/ Dial \/ HangUp \/ OnAir \/ Abandon

Spec == Init /\ [][Next]_vars
=============================================================================
