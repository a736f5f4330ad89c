------------------------------- MODULE Devices -------------------------------
(***************************************************************************)
(* The program and its devices from the first line of proj_main_loop to the  *)
(* last: set-up, the keyboard controller that mouse and keyboard share, the  *)
(* interrupts it raises, the handlers that serve them, clean-up.             *)
(*                                                                           *)
(* External: the controller holds one byte until it is read and then takes   *)
(* the next from either device, which raises that device's interrupt; MINIX   *)
(* keeps a flag for each interrupt until the program asks for them; commands  *)
(* are taken and answered in time, and what the mouse had still to send is    *)
(* dropped for the answer.  Before the keyboard is subscribed keys are        *)
(* MINIX's own affair.                                                        *)
(***************************************************************************)
EXTENDS Pointer

CONSTANTS Packets,     \* what the mouse reports: a byte with the sync bit and two more
          MaxKeys,     \* bound on the keyboard bytes waiting
          MaxMishaps,  \* bound on the bytes damaged on their way to the controller
          MaxTries     \* KBC_MAX_TRIES: 10

ASSUME DevicesAssumption ==
  /\ \A p \in Packets : p \in Seq(Byte) /\ Len(p) = 3 /\ Sync(p[1])
  /\ MaxKeys \in Nat /\ MaxMishaps \in Nat /\ MaxTries \in Nat
  /\ MaxMishaps + 2 <= MaxTries

VARIABLES pc,       \* where the program is
          status,   \* what it returned
          held,     \* what it has taken from the machine
          obuf,     \* the byte in the controller's output buffer, or Empty
          mq, keys, \* the bytes mouse and keyboard have still to send
          flagged,  \* the interrupts MINIX has noted since the program last asked
          irqs,     \* those of this notification that are still to be handled
          tries,    \* how often the mouse was told to be silent
          mishaps,  \* how many bytes were damaged
          calm      \* from now on: no keys, no damage, small movements

hardware == <<obuf, mq, keys>>
vars == <<buf, ms, data, mode, pc, status, held, obuf, mq, keys, flagged, irqs, tries, mishaps, calm>>

Empty == [dev |-> "none", val |-> 0, bad |-> FALSE]

Ack == 250
Nack == 254
Error == 252

Devs == {"mouse", "kbd"}
Lines == {"timer", "kbd", "mouse", "uart"}   \* what is subscribed in the kernel

\* devices_init in order: what each step takes, the next step, and what is given
\* back by hand when it fails.
Setup == {"video", "rate", "timer", "kbd", "mouse", "stream", "uart"}

After(step) ==
  CASE step = "video"  -> "rate"
    [] step = "rate"   -> "timer"
    [] step = "timer"  -> "kbd"
    [] step = "kbd"    -> "mouse"
    [] step = "mouse"  -> "stream"
    [] step = "stream" -> "uart"
    [] step = "uart"   -> "run"

Undone(step) ==
  CASE step = "kbd" -> {"timer"}
    [] step = "mouse" -> {"timer", "kbd"}
    [] step \in {"stream", "uart"} -> {"timer", "kbd", "mouse"}
    [] OTHER -> {}

Init ==
  /\ PointerInit
  /\ pc = "video" /\ status = "none" /\ held = {}
  /\ obuf = Empty /\ mq = << >> /\ keys = 0
  /\ flagged = {} /\ irqs = {}
  /\ tries = 0 /\ mishaps = 0 /\ calm = FALSE

----------------------------------------------------------------------------
(* Keyboard, mouse and controller                                          *)

KeysLive == "kbd" \in held
\* A key is pressed or let go.
Key ==
  /\ KeysLive /\ keys < MaxKeys /\ ~calm
  /\ keys' = keys + 1
  /\ UNCHANGED <<pointerVars, pc, status, held, obuf, mq, flagged, irqs, tries, mishaps, calm>>

\* Less than eight pixels right or up: nothing after the first byte looks like one,
\* and no byte at all like an answer to a command.
Gentle(p) == ~Overflown(p[1]) /\ ~Sync(p[2]) /\ ~Sync(p[3])

\* The mouse moves, or its button does.
Move ==
  /\ "stream" \in held /\ mq = << >> /\ pc # "answer"
  /\ \E p \in Packets : (calm => Gentle(p)) /\ mq' = p
  /\ UNCHANGED <<pointerVars, pc, status, held, obuf, keys, flagged, irqs, tries, mishaps, calm>>

\* The controller takes a byte, in good order or not.
Load(dev, val, bad) ==
  /\ obuf = Empty
  /\ obuf' = [dev |-> dev, val |-> val, bad |-> bad]
  /\ flagged' = flagged \cup ({dev} \cap held)
  /\ bad => ~calm /\ mishaps < MaxMishaps
  /\ mishaps' = IF bad THEN mishaps + 1 ELSE mishaps
  /\ UNCHANGED <<pointerVars, pc, status, held, irqs, tries, calm>>

LoadMouse ==
  /\ mq # << >>
  /\ \E bad \in BOOLEAN : Load("mouse", Head(mq), bad)
  /\ mq' = Tail(mq) /\ UNCHANGED keys

\* What a scancode says is the game's affair.
LoadKey ==
  /\ keys > 0
  /\ \E bad \in BOOLEAN : Load("kbd", 0, bad)
  /\ keys' = keys - 1 /\ UNCHANGED mq

\* The user lets go of the keyboard and moves the mouse gently.
CalmDown ==
  /\ ~calm /\ keys = 0 /\ obuf = Empty /\ mq = << >>
  /\ calm' = TRUE
  /\ UNCHANGED <<pointerVars, pc, status, held, hardware, flagged, irqs, tries, mishaps>>

----------------------------------------------------------------------------
(* devices_init                                                            *)

\* LCF's function that starts the mouse's reports polls for the mouse's answer
\* while interrupts are subscribed already: it reads whatever stands in the
\* controller, and the flags of what it has read stay behind.
PolledAnswer ==
  /\ obuf' = Empty
  /\ flagged' = flagged \cup {"mouse"}

Done(step) ==
  /\ pc = step
  /\ held' = held \cup {step} /\ pc' = After(step)
  /\ IF step = "stream" THEN PolledAnswer ELSE UNCHANGED <<obuf, flagged>>
  /\ UNCHANGED <<pointerVars, status, mq, keys, irqs, tries, mishaps, calm>>

\* The program ends at once; a failure leaves on what is not undone.
Refused(step) ==
  /\ pc = step
  /\ held' = held \ Undone(step) /\ pc' = "ended" /\ status' = "refused"
  /\ UNCHANGED <<pointerVars, hardware, flagged, irqs, tries, mishaps, calm>>

----------------------------------------------------------------------------
(* The main loop                                                           *)

\* driver_receive
Receive ==
  /\ pc = "run" /\ irqs = {} /\ flagged # {}
  /\ irqs' = flagged /\ flagged' = {}
  /\ UNCHANGED <<pointerVars, pc, status, held, hardware, tries, mishaps, calm>>

\* The handlers of mouse and keyboard read the controller if it holds a byte, and
\* throw the byte away if it is damaged or not for them.
Drained(dev) == obuf.dev = dev /\ ~obuf.bad

\* A plausible bug: a byte in error is left where it is.
ReadOutKeeps(dev) == obuf' = IF Drained(dev) THEN Empty ELSE obuf

ReadOut(dev) == obuf' = Empty

\* handle_mouse
HandleMouse ==
  /\ pc = "run" /\ "mouse" \in irqs
  /\ irqs' = irqs \ {"mouse"}
  /\ ReadOut("mouse")
  /\ IF Drained("mouse") THEN ByteIn(obuf.val) ELSE UNCHANGED pointerVars
  /\ UNCHANGED <<pc, status, held, mq, keys, flagged, tries, mishaps, calm>>

\* handle_keyboard comes after it.
HandleKeyboard ==
  /\ pc = "run" /\ "mouse" \notin irqs /\ "kbd" \in irqs
  /\ irqs' = irqs \ {"kbd"}
  /\ ReadOut("kbd")
  /\ IF Drained("kbd") THEN MoveCursor \/ KeyScreen \/ UNCHANGED pointerVars
     ELSE UNCHANGED pointerVars
  /\ UNCHANGED <<pc, status, held, mq, keys, flagged, tries, mishaps, calm>>

\* The handlers of timer and serial port move the game to other screens.
ScreenChanges ==
  /\ pc = "run" /\ irqs = {} /\ NewScreen
  /\ UNCHANGED <<pc, status, held, hardware, flagged, irqs, tries, mishaps, calm>>

\* Some handler has said that the game is over; the loop ends when those of the
\* notification have run.  The last message is sent, and 50 ms pass.
LeaveLoop ==
  /\ pc = "run" /\ irqs = {}
  /\ pc' = "leave"
  /\ UNCHANGED <<pointerVars, status, held, hardware, flagged, irqs, tries, mishaps, calm>>

----------------------------------------------------------------------------
(* devices_cleanup                                                         *)

\* uart_cleanup
CloseSerial ==
  /\ pc = "leave"
  /\ held' = held \ {"uart"} /\ pc' = "silence"
  /\ UNCHANGED <<pointerVars, status, hardware, flagged, irqs, tries, mishaps, calm>>

\* mouse_send_cmd(MOUSE_DISABLE_DR), the command; the mouse may have misheard it.
Command ==
  /\ pc = "silence"
  /\ tries' = tries + 1 /\ pc' = "answer"
  /\ \/ mq' = <<Ack>> /\ held' = held \ {"stream"} /\ UNCHANGED mishaps
     \/ /\ ~calm /\ mishaps < MaxMishaps
        /\ mishaps' = mishaps + 1 /\ mq' = <<Nack>> /\ UNCHANGED held
  /\ UNCHANGED <<pointerVars, status, obuf, keys, flagged, irqs, calm>>

\* A plausible bug: any answer but the right one is final.
VerdictOnce(b) == IF ~b.bad /\ b.dev = "mouse" /\ b.val = Ack THEN "done" ELSE "fail"

\* What mouse_send_cmd makes of the byte it reads.
Verdict(b) ==
  IF b.bad \/ b.dev # "mouse" \/ b.val = Error THEN "fail"
  ELSE IF b.val = Ack THEN "done"
  ELSE IF tries = MaxTries THEN "fail" ELSE "again"

Answer ==
  /\ pc = "answer" /\ obuf # Empty
  /\ obuf' = Empty
  /\ \/ Verdict(obuf) = "done"  /\ pc' = "release" /\ UNCHANGED status
     \/ Verdict(obuf) = "again" /\ pc' = "silence" /\ UNCHANGED status
     \/ Verdict(obuf) = "fail"  /\ pc' = "ended" /\ status' = "failed"
  /\ UNCHANGED <<pointerVars, held, mq, keys, flagged, irqs, tries, mishaps, calm>>

\* The rest of devices_cleanup: interrupts and screen; the timer's rate stays.
Release ==
  /\ pc = "release"
  /\ held' = held \ {"mouse", "kbd", "timer", "video"}
  /\ pc' = "ended" /\ status' = "ok"
  /\ UNCHANGED <<pointerVars, hardware, flagged, irqs, tries, mishaps, calm>>

----------------------------------------------------------------------------

User == Key \/ Move \/ CalmDown

Controller == pc # "ended" /\ (LoadMouse \/ LoadKey)

Start == \E step \in Setup : Done(step) \/ Refused(step)

Loop == Receive \/ HandleMouse \/ HandleKeyboard \/ ScreenChanges \/ LeaveLoop

Finish == CloseSerial \/ Command \/ Answer \/ Release

Next == (pc # "ended" /\ User) \/ Controller \/ Start \/ Loop \/ Finish

\* The controller passes on what the devices send, and the program runs: it asks
\* for its interrupts and serves them, and goes on with what it has begun.
Spec ==
  /\ Init /\ [][Next]_vars
  /\ WF_vars(Controller) /\ WF_vars(Receive)
  /\ WF_vars(HandleMouse) /\ WF_vars(HandleKeyboard) /\ WF_vars(Finish)

----------------------------------------------------------------------------
(* Properties                                                              *)

\* A byte in the controller has its interrupt noted: neither of the handlers may
\* clear an interrupt and leave the byte, or the controller would never raise
\* another one (kbc.c:54, mouse.c:44).
NeverDeaf == pc = "run" /\ obuf # Empty => obuf.dev \in flagged \cup irqs

\* The interrupts noted are those of the byte in the controller, each once.
Matched ==
  /\ flagged \cup irqs = {obuf.dev} \cap Devs
  /\ flagged \cap irqs = {}

FromMouse == IF obuf.dev = "mouse" THEN 1 ELSE 0

\* The next byte that begins a packet will be taken for one that does.
InPhase == (Len(buf) + FromMouse + Len(mq)) % 3 = 0

\* Each handler throws away what the other one's device has sent, so an interrupt
\* noted twice can cost a byte (handlers.c:39, 50).  Once notes and byte agree they
\* agree for good, and no packet is torn but by damage on the line.
NothingTorn ==
  [][pc = "run" /\ pc' = "run" /\ Matched /\ ~obuf.bad =>
       Matched' /\ (InPhase => InPhase')]_vars

\* A packet torn by a lost byte makes the handler take other bytes for a packet's
\* first (handlers.c:58).  With movements too small to look like one, and nothing
\* else in the way, it finds back.
FindsBack == []<>(calm /\ mq # << >>) => <>[](InPhase \/ pc # "run")

\* A program that could not start has kept no interrupt, and neither has one that
\* ends well.  With the keyboard left alone, a good line and only gentle movements it
\* does end well and the mouse is silent, although it may have been moving: a byte of a
\* packet in the place of the answer is survived by asking again (lab4/mouse.c:80-93).
\* Not so the 252 that a larger movement can have in a packet: it is the code of an
\* error, and clean-up stops there.
GivesBack ==
  /\ status = "refused" => held \cap Lines = {}
  /\ status = "ok" => held \subseteq {"rate", "stream"}
  /\ calm => status # "failed" /\ (status = "ok" => held \subseteq {"rate"})
=============================================================================
