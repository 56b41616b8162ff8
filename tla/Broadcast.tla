------------------------------ MODULE Broadcast ------------------------------
(***************************************************************************)
(* The connection manager of app/core/ws.py in one server process, the     *)
(* WebSocket endpoint of app/main.py and the handlers of the agents that   *)
(* broadcast.  All of them are coroutines of one event loop: an await lets *)
(* the others in, and the code between two awaits runs undisturbed.        *)
(* broadcast awaits inside a loop over the very list that connect and      *)
(* disconnect change.                                                      *)
(***************************************************************************)
EXTENDS Integers, Sequences, FiniteSets

CONSTANTS
  Socket,       \* connections; a dashboard that reconnects is a new one
  Beat,         \* handlers of heartbeats: one after the other, for ever
  Report,       \* handlers of a status report
  MaxAttempts   \* attempts of one HTTP call of the agent

Call == Beat \cup Report
None == "none"

ASSUME BroadcastAssumption ==
  /\ IsFiniteSet(Socket) /\ Beat \cap Report = {} /\ None \notin Call
  /\ MaxAttempts \in Nat \ {0}

VARIABLES
  active,   \* ws_manager._active
  joined,   \* what ws_endpoint_status of a connection does
  gone,     \* connections that the dashboard has closed
  shut,     \* connections on which a send has failed: any later one raises too
  cast,     \* the broadcasts
  held      \* the call that removes its dead; nothing else runs meanwhile

vars == <<active, joined, gone, shut, cast, held>>

Elements(s) == {s[k] : k \in DOMAIN s}
Distinct(s) == \A j, k \in DOMAIN s : s[j] = s[k] => j = k

\* A broadcast: the place of its iterator, whom it told and found dead.  start
\* and shifts are history: the list at its beginning, and how many others were
\* removed from before its iterator since.
Cast == [stage : {"idle", "loop", "purge", "done", "lost"}, try : 1..MaxAttempts, i : Nat \ {0},
         dead : Seq(Socket), sent : Seq(Socket), start : SUBSET Socket, shifts : Nat]

Idle == [stage |-> "idle", try |-> 1, i |-> 1, dead |-> <<>>, sent |-> <<>>,
         start |-> {}, shifts |-> 0]

-----------------------------------------------------------------------------
(* The list *)

\* list.remove takes the first occurrence out.
Place(s, c) == CHOOSE k \in DOMAIN s : s[k] = c /\ \A j \in DOMAIN s : s[j] = c => k <= j

\* Defect: the place is cleared and stays in the list.
RemoveMark(s, c) == [s EXCEPT ![Place(s, c)] = None]

Remove(s, c) ==
  [k \in 1..(Len(s) - 1) |-> IF k < Place(s, c) THEN s[k] ELSE s[k + 1]]

\* How the other broadcasts see the removal of c.
Shifted(b, c) ==
  [d \in Call |->
     IF d # b /\ cast[d].stage = "loop" /\ Place(active, c) < cast[d].i
     THEN [cast[d] EXCEPT !.shifts = @ + 1] ELSE cast[d]]

-----------------------------------------------------------------------------
(* ws_endpoint_status *)

\* await ws.accept() ...
Accept(c) ==
  /\ held = None /\ joined[c] = "new"
  /\ joined' = [joined EXCEPT ![c] = "accepted"]
  /\ UNCHANGED <<active, gone, shut, cast, held>>

\* Defect: a new connection is put first.
JoinedFirst(c) == <<c>> \o active

\* ... and then the append, whatever happened meanwhile.
Joined(c) == Append(active, c)

Join(c) ==
  /\ held = None /\ joined[c] = "accepted"
  /\ active' = Joined(c)
  /\ joined' = [joined EXCEPT ![c] = "in"]
  /\ UNCHANGED <<gone, shut, cast, held>>

Close(c) ==
  /\ held = None /\ joined[c] # "new" /\ c \notin gone
  /\ gone' = gone \cup {c}
  /\ UNCHANGED <<active, joined, shut, cast, held>>

\* A ping to a connection that is gone: the first failed send is a disconnect
\* and leads to disconnect(); a later one is a RuntimeError, which ends the
\* handler without it.
Ping(c) ==
  /\ held = None /\ joined[c] = "in" /\ c \in gone
  /\ joined' = [joined EXCEPT ![c] = "out"]
  /\ shut' = shut \cup {c}
  /\ IF c \notin shut /\ c \in Elements(active)
     THEN active' = Remove(active, c) /\ cast' = Shifted(None, c)
     ELSE UNCHANGED <<active, cast>>
  /\ UNCHANGED <<gone, held>>

-----------------------------------------------------------------------------
(* broadcast *)

\* Defect: the list of the dead is not a new one.
FreshKeepsDead(b) == [cast[b] EXCEPT !.stage = "loop", !.i = 1, !.sent = <<>>,
                                     !.start = Elements(active), !.shifts = 0]

Fresh(b) == [cast[b] EXCEPT !.stage = "loop", !.i = 1, !.dead = <<>>, !.sent = <<>>,
                            !.start = Elements(active), !.shifts = 0]

\* What follows the broadcast: the heartbeat is answered, the report committed.
After(b) == IF b \in Beat THEN Idle ELSE [Idle EXCEPT !.stage = "done"]

\* The handler of a heartbeat or a report comes to its broadcast, if anybody listens.
Begin(b) ==
  /\ held = None /\ cast[b].stage = "idle"
  /\ \/ /\ active # <<>>
        /\ cast' = [cast EXCEPT ![b] = Fresh(b)]
     \/ /\ active = <<>> /\ b \in Report
        /\ cast' = [cast EXCEPT ![b] = After(b)]
  /\ UNCHANGED <<active, joined, gone, shut, held>>

\* An exception in the broadcast makes the handler answer 500, and the agent
\* calls again, up to MaxAttempts.
Failed(b) ==
  IF cast[b].try < MaxAttempts THEN [cast[b] EXCEPT !.stage = "idle", !.try = @ + 1]
  ELSE IF b \in Beat THEN Idle ELSE [cast[b] EXCEPT !.stage = "lost"]

\* Defect: only a disconnect counts as dead, not the error of a later send.
CaughtDisconnect(c) == c \notin shut

\* except Exception
Caught(c) == TRUE

\* Defect: the last connection is left out.
AtEndEarly(b) == cast[b].i >= Len(active)

\* The iterator looks at the length of the list as it is now.
AtEnd(b) == cast[b].i > Len(active)

\* The iterator after the send to c
Told(b, c) == [cast[b] EXCEPT !.i = @ + 1, !.sent = Append(@, c)]

Found(b, c) ==
  IF Caught(c) THEN [cast[b] EXCEPT !.i = @ + 1, !.dead = Append(@, c)] ELSE Failed(b)

\* One round of the loop: the next element of the list as it is now, and a send.
Tell(b) ==
  /\ held = None /\ cast[b].stage = "loop" /\ ~AtEnd(b)
  /\ LET c == active[cast[b].i] IN
       \/ /\ c \notin gone
          /\ cast' = [cast EXCEPT ![b] = Told(b, c)]
          /\ UNCHANGED shut
       \/ /\ c \in gone
          /\ shut' = shut \cup {c}
          /\ cast' = [cast EXCEPT ![b] = Found(b, c)]
  /\ UNCHANGED <<active, joined, gone, held>>

EndLoop(b) ==
  /\ held = None /\ cast[b].stage = "loop" /\ AtEnd(b)
  /\ cast' = [cast EXCEPT ![b].stage = "purge"] /\ held' = b
  /\ UNCHANGED <<active, joined, gone, shut>>

\* The second loop removes the dead.  remove raises if one is not there any more.
Purge(b) ==
  /\ held = b
  /\ \/ /\ cast[b].dead = <<>>
        /\ cast' = [cast EXCEPT ![b] = After(b)] /\ held' = None
        /\ UNCHANGED active
     \/ /\ cast[b].dead # <<>>
        /\ LET c == Head(cast[b].dead) IN
             IF c \in Elements(active)
             THEN /\ active' = Remove(active, c)
                  /\ cast' = [Shifted(b, c) EXCEPT ![b].dead = Tail(@)]
                  /\ UNCHANGED held
             ELSE /\ cast' = [cast EXCEPT ![b] = Failed(b)] /\ held' = None
                  /\ UNCHANGED active
  /\ UNCHANGED <<joined, gone, shut>>

-----------------------------------------------------------------------------
Init ==
  /\ active = <<>> /\ gone = {} /\ shut = {} /\ held = None
  /\ joined = [c \in Socket |-> "new"]
  /\ cast = [b \in Call |-> Idle]

Serve(b) == Tell(b) \/ EndLoop(b) \/ Purge(b)

Next ==
  \/ \E c \in Socket : Accept(c) \/ Join(c) \/ Close(c) \/ Ping(c)
  \/ \E b \in Call : Begin(b) \/ Serve(b)

Spec == Init /\ [][Next]_vars

(***************************************************************************)
(* Coroutines that can go on do, the timer of the ping fires, and agents   *)
(* go on to send heartbeats and to repeat a call that failed.  The event   *)
(* loop takes what is ready in the order in which it became ready, so none *)
(* is passed over for ever because another removes its dead (SF).  Nothing *)
(* makes a dashboard connect or close.                                     *)
(***************************************************************************)
Fairness ==
  /\ \A c \in Socket : SF_vars(Join(c) \/ Ping(c))
  /\ \A b \in Call : SF_vars(Begin(b) \/ Serve(b))

FairSpec == Spec /\ Fairness

-----------------------------------------------------------------------------
(* Properties *)

TypeOK ==
  /\ active \in Seq(Socket)
  /\ joined \in [Socket -> {"new", "accepted", "in", "out"}]
  /\ gone \subseteq Socket /\ shut \subseteq gone
  /\ cast \in [Call -> Cast] /\ held \in Call \cup {None}

\* One broadcast sends its message to a connection at most once, although the
\* list is changed under its iterator.
AtMostOnce == \A b \in Call : Distinct(cast[b].sent)

\* A broadcast at its end has passed over a connection that was there at the
\* start, and still is, at most as often as others were removed from before its
\* iterator: nobody who stays is left out unless somebody else left.
Missed(b) == (cast[b].start \cap Elements(active))
             \ (Elements(cast[b].sent) \cup Elements(cast[b].dead))

MissedOnlyByShift ==
  \A b \in Call : cast[b].stage = "purge" => Cardinality(Missed(b)) <= cast[b].shifts

\* A status report fails in its broadcast once at most for every connection that
\* was closed: a loop of failures cannot feed on one dead connection.
FailuresBounded ==
  \A b \in Call : (IF cast[b].stage = "lost" THEN MaxAttempts ELSE cast[b].try - 1)
                    <= Cardinality(gone)

\* With fewer connections than attempts, no report is lost to the dashboards.
ReportTaken == \A b \in Report : <>(cast[b].stage = "done")

\* A connection that was closed leaves the list for good, also after its own
\* handler has ended without disconnect().
ClosedLeaves == \A c \in Socket : c \in gone ~> [](c \notin Elements(active))
=============================================================================
