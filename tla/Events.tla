------------------------------- MODULE Events -------------------------------
(***************************************************************************)
(* GET /v1/events of internal/intent/reads.go on one replica: long polls   *)
(* that wait for a slot that brings their player events, sharing one scan  *)
(* of the state for every applied slot, with the client of                 *)
(* unity-client/Runtime/Core/EventFollower.cs that follows them.           *)
(*                                                                         *)
(* A slot is abstracted to the events it brings each player: of            *)
(* leaderboard_changed one for each tournament, and the others; who sees   *)
(* an event is in Play.  A client follows the tournaments it has entered,  *)
(* under one filter.  Where the code holds Server.mu, or runs a closure on *)
(* the state, is one step.                                                 *)
(***************************************************************************)
EXTENDS Naturals, FiniteSets, Sequences, SequencesExt

CONSTANTS
  Players,
  Requests,       \* the requests the clients may make, each used once
  PlayerOf,       \* request -> the player that makes it
  MaxEventPolls,  \* Config.MaxEventPolls
  PageSize,       \* MaxEventsPerResponse
  Kinds,          \* the events a player can tell apart within a slot
  Boards,         \* those of type leaderboard_changed: one per tournament
  Slots,          \* what a slot may bring: player -> set of Kinds
  Waiting,        \* the requests that are waiting when the model starts
  Start,          \* player -> the cursor its client starts with
  None,
  MaxSlot,        \* bound: length of the log
  Faulty,         \* bound: the requests that meet one of them
  MaxFaults       \* bound: timeouts, failures, calls given up, pages discarded

ASSUME EventsAssumption ==
  /\ PlayerOf \in [Requests -> Players]
  /\ MaxEventPolls \in Nat \ {0}
  /\ PageSize \in Nat \ {0}
  /\ IsFiniteSet(Kinds) /\ Boards \subseteq Kinds
  /\ Slots \subseteq [Players -> SUBSET Kinds]
  /\ Waiting \subseteq Requests
  /\ \A r, s \in Waiting : PlayerOf[r] = PlayerOf[s] => r = s
  /\ IsFiniteSet(Waiting) /\ Cardinality(Waiting) <= MaxEventPolls
  /\ Start \in [Players -> Nat]
  /\ None \notin Requests
  /\ MaxSlot \in Nat

VARIABLES
  log,      \* slot -> what it brings each player
  pc,       \* request -> where its handler is
  req,      \* request -> its poll and the handler's local variables
  polls,    \* Server.polls: player -> its open request
  scan,     \* Server.scanning and the locals of the handler that scans
  answer,   \* request -> what the handler wrote
  call,     \* player -> the request its client waits for
  cursor,   \* player -> events_cursor
  got,      \* player -> the events handed over, in that order
  faults    \* what has gone wrong so far, to bound it

serverVars == <<pc, req, polls, scan, answer>>
clientVars == <<call, cursor, got>>
vars == <<log, serverVars, clientVars, faults>>

Fault(r) == r \in Faulty /\ faults < MaxFaults /\ faults' = faults + 1

-----------------------------------------------------------------------------
(* The log and what is visible of it *)

applied == Len(log)

\* The slots after from that bring p events.
Visible(p, from) == {n \in 1..applied : n > from /\ log[n][p] # {}}

\* The events that p sees after from and before slot n.
EventsBefore(p, from, n) ==
  UNION {{m} \X log[m][p] : m \in {k \in Visible(p, from) : k < n}}

\* The slots State.Events returns: whole slots until a page is full.
EventsAfter(p, from) ==
  {n \in Visible(p, from) : Cardinality(EventsBefore(p, from, n)) < PageSize}

Lower(a, b) == IF a < b THEN a ELSE b

\* State.HasEvents.
HasEvents(p, from) == Visible(p, from) # {}

\* Plausible slip: the first leaderboard_changed is kept instead of the last.
Left_First(p, in, n) ==
  {e \in log[n][p] : e \in Boards => \A m \in in : e \in log[m][p] => n <= m}

\* The events of slot n that eventItems leaves in a page of the slots in: of
\* each tournament's leaderboard_changed only the last of the page.
Left(p, in, n) ==
  {e \in log[n][p] : e \in Boards => \A m \in in : e \in log[m][p] => m <= n}

\* eventItems: the slots of the page with what is left of them, in order.
EventItems(p, in) ==
  LET upTo[n \in 0..applied] ==
        IF n = 0 THEN <<>>
        ELSE IF n \in in /\ Left(p, in, n) # {}
             THEN Append(upTo[n - 1], [slot |-> n, events |-> Left(p, in, n)])
             ELSE upTo[n - 1]
  IN upTo[applied]

\* The event loop applies the next slot and takes the snapshot that
\* WaitApplied looks at.
Apply(slot) ==
  /\ applied < MaxSlot
  /\ log' = Append(log, slot)
  /\ UNCHANGED <<serverVars, clientVars, faults>>

-----------------------------------------------------------------------------
(* The handler *)

NoPage == [cursor |-> 0, events |-> <<>>]

NewReq(from) ==
  [from |-> from, superseded |-> FALSE,
   over |-> FALSE,                       \* ctx has ended
   gone |-> FALSE,                       \* the client's connection has ended
   page |-> NoPage, seen |-> 0, woke |-> 0,
   scanned |-> 0, relevant |-> FALSE]    \* guarded by Server.mu

NoScan == [by |-> None, covers |-> {}, applied |-> 0, found |-> {}]

NoAnswer == [kind |-> "none", from |-> 0, page |-> NoPage]
Error == [NoAnswer EXCEPT !.kind = "error"]

\* A handler that holds a poll: from openPoll to closePoll.
Active(r) == pc[r] \notin {"idle", "sent", "refused", "done"}

Write(r, a) == answer' = [answer EXCEPT ![r] = a]

\* 200 with the response of the last read.
Page(r) == [kind |-> "page", from |-> req[r].from, page |-> req[r].page]

Goto(r, l) == pc' = [pc EXCEPT ![r] = l]

\* Plausible slip: the request that is superseded is not cancelled.
Superseding_NoCancel(prev, rs) ==
  IF prev = None THEN rs ELSE [rs EXCEPT ![prev].superseded = TRUE]

\* openPoll ends the previous request of the player.
Superseding(prev, rs) ==
  IF prev = None THEN rs
  ELSE [rs EXCEPT ![prev].superseded = TRUE, ![prev].over = TRUE]

\* The request reaches the handler and openPoll registers it, or refuses it
\* when MaxEventPolls requests of other players are open.
Open(r) ==
  LET p == PlayerOf[r]
      prev == polls[p]
      full == prev = None /\ Cardinality({q \in Players : polls[q] # None}) >= MaxEventPolls
  IN /\ pc[r] = "sent"
     /\ \/ /\ full
           /\ Goto(r, "refused")
           /\ Write(r, Error)
           /\ UNCHANGED <<req, polls>>
        \/ /\ ~full
           /\ Goto(r, "read")
           /\ req' = Superseding(prev, req)
           /\ polls' = [polls EXCEPT ![p] = r]
           /\ UNCHANGED answer
     /\ UNCHANGED <<scan, log, clientVars, faults>>

\* The response of a read: a replica behind the cursor keeps it, a page that
\* was cut ends at its last slot, and any other at the applied slot.
PageAfter(p, from) ==
  LET evs == EventsAfter(p, from)
      more == evs # {} /\ HasEvents(p, Max(evs))
  IN [cursor |-> IF applied < from THEN from ELSE IF more THEN Max(evs) ELSE applied,
      events |-> EventItems(p, evs)]

\* handleEvents reads the state: events, or the end of the wait, are answered
\* at once.
Read(r) ==
  LET page == PageAfter(PlayerOf[r], req[r].from)
  IN /\ pc[r] = "read"
     /\ req' = [req EXCEPT ![r].page = page, ![r].seen = applied]
     /\ \/ /\ page.events # <<>> \/ req[r].over
           /\ Write(r, [kind |-> "page", from |-> req[r].from, page |-> page])
           /\ Goto(r, "closing")
        \/ /\ page.events = <<>> /\ ~req[r].over
           /\ Goto(r, "wait")
           /\ UNCHANGED answer
     /\ UNCHANGED <<polls, scan, log, clientVars, faults>>

\* readState fails, or the first read does not find the tournament that the
\* request names, or the player's entry in it.
ReadFails(r) ==
  /\ pc[r] = "read"
  /\ Write(r, Error)
  /\ Goto(r, "closing")
  /\ Fault(r)
  /\ UNCHANGED <<req, polls, scan, log, clientVars>>

\* The slot WaitApplied returns.
Woke == applied

\* WaitApplied returns a slot above seen, or ctx has ended.
Wake(r) ==
  LET reached == applied > req[r].seen
      q == req[r]
  IN /\ pc[r] = "wait"
     /\ reached \/ q.over
     /\ UNCHANGED <<polls, scan, log, clientVars, faults>>
     /\ \/ /\ q.gone
           /\ Goto(r, "closing")
           /\ UNCHANGED <<req, answer>>
        \/ /\ ~q.gone /\ q.superseded
           /\ Write(r, Page(r))
           /\ Goto(r, "closing")
           /\ UNCHANGED req
        \/ /\ ~q.gone /\ ~q.superseded /\ ~reached
           /\ Goto(r, "read")
           /\ UNCHANGED <<req, answer>>
        \/ /\ ~q.gone /\ ~q.superseded /\ reached
           /\ req' = [req EXCEPT ![r].woke = Woke]
           /\ Goto(r, "await")
           /\ UNCHANGED answer

\* WaitApplied returns because the runner has stopped.
RunnerStops(r) ==
  /\ pc[r] = "wait"
  /\ applied <= req[r].seen /\ ~req[r].over
  /\ Write(r, Error)
  /\ Goto(r, "closing")
  /\ Fault(r)
  /\ UNCHANGED <<req, polls, scan, log, clientVars>>

-----------------------------------------------------------------------------
(* awaitEvents *)

\* What handleEvents does with the answer of awaitEvents.
Decide(r, relevant, upTo) ==
  \/ /\ req[r].superseded
     /\ Write(r, Page(r))
     /\ Goto(r, "closing")
     /\ UNCHANGED req
  \/ /\ ~req[r].superseded /\ (relevant \/ req[r].over)
     /\ req' = [req EXCEPT ![r].woke = 0]
     /\ Goto(r, "read")
     /\ UNCHANGED answer
  \/ /\ ~req[r].superseded /\ ~relevant /\ ~req[r].over
     /\ req' = [req EXCEPT ![r].seen = upTo, ![r].woke = 0]
     /\ Goto(r, "wait")
     /\ UNCHANGED answer

\* The request is no longer covered, has been scanned, or waits for the scan
\* that runs and stops waiting when ctx ends.
Await(r) ==
  LET q == req[r]
      mine == polls[PlayerOf[r]] = r
  IN /\ pc[r] = "await"
     /\ \/ ~mine /\ Decide(r, TRUE, q.woke)
        \/ mine /\ q.scanned >= q.woke /\ Decide(r, q.relevant, q.scanned)
        \/ mine /\ q.scanned < q.woke /\ scan # NoScan /\ q.over /\ Decide(r, TRUE, q.woke)
     /\ UNCHANGED <<polls, scan, log, clientVars, faults>>

\* Nobody scans: this request does, for every request that is open.
StartScan(r) ==
  /\ pc[r] = "await"
  /\ polls[PlayerOf[r]] = r
  /\ req[r].scanned < req[r].woke
  /\ scan = NoScan
  /\ scan' = [NoScan EXCEPT !.by = r, !.covers = {polls[p] : p \in Players} \ {None}]
  /\ Goto(r, "scan")
  /\ UNCHANGED <<req, polls, answer, log, clientVars, faults>>

\* readScan's closure on the state.
ScanRead(r) ==
  /\ pc[r] = "scan"
  /\ scan' = [scan EXCEPT !.applied = applied,
                          !.found = {c \in scan.covers : HasEvents(PlayerOf[c], req[c].from)}]
  /\ Goto(r, "publish")
  /\ UNCHANGED <<req, polls, answer, log, clientVars, faults>>

\* The requests that take the scan's result: those it looked at.
Covered == scan.covers

\* The result of a scan is published and the next scan may start; the scan
\* reads at least the slot the request woke for.
Publish(r) ==
  /\ pc[r] = "publish"
  /\ req' = [c \in Requests |->
               IF c \in Covered
               THEN [req[c] EXCEPT !.scanned = scan.applied, !.relevant = c \in scan.found]
               ELSE req[c]]
  /\ scan' = NoScan
  /\ Goto(r, "await")
  /\ UNCHANGED <<polls, answer, log, clientVars, faults>>

\* The turn to scan after a scan that failed.
AfterFailure == NoScan

\* readScan fails: the request's own read answers.
ScanFails(r) ==
  /\ pc[r] = "scan"
  /\ scan' = AfterFailure
  /\ Decide(r, TRUE, req[r].woke)
  /\ Fault(r)
  /\ UNCHANGED <<polls, log, clientVars>>

\* Plausible slip: the player's registration is removed whoever holds it.
Unregister_Any(r) == [polls EXCEPT ![PlayerOf[r]] = None]

\* closePoll, deferred by the handler.
Unregister(r) ==
  IF polls[PlayerOf[r]] = r THEN [polls EXCEPT ![PlayerOf[r]] = None] ELSE polls

Close(r) ==
  /\ pc[r] = "closing"
  /\ polls' = Unregister(r)
  /\ req' = [req EXCEPT ![r] = NewReq(0)]
  /\ Goto(r, "done")
  /\ UNCHANGED <<scan, answer, log, clientVars, faults>>

\* The wait the client asked for has passed.
Timeout(r) ==
  /\ Active(r)
  /\ ~req[r].over
  /\ req' = [req EXCEPT ![r].over = TRUE]
  /\ Fault(r)
  /\ UNCHANGED <<pc, polls, scan, answer, log, clientVars>>

\* The server notices that the client has closed the connection.
Notice(r) ==
  /\ Active(r)
  /\ call[PlayerOf[r]] # r
  /\ ~req[r].gone
  /\ req' = [req EXCEPT ![r].gone = TRUE, ![r].over = TRUE]
  /\ UNCHANGED <<pc, polls, scan, answer, log, clientVars, faults>>

-----------------------------------------------------------------------------
(* The client *)

\* EventFollower.Tick: one call at a time, with the stored cursor.
Send(r) ==
  LET p == PlayerOf[r]
  IN /\ pc[r] = "idle"
     /\ call[p] = None
     /\ call' = [call EXCEPT ![p] = r]
     /\ req' = [req EXCEPT ![r] = NewReq(cursor[p])]
     /\ Goto(r, "sent")
     /\ UNCHANGED <<polls, scan, answer, log, cursor, got, faults>>

\* Plausible slip: the answer to a call that was given up is used.
Expects_Any(r) == TRUE

\* EventFollower.Answered looks at the answer of its call only.
Expects(r) == call[PlayerOf[r]] = r

\* EventFollower.Answered: the events are handed over and the cursor advances;
\* an error leaves it, and so does a page that is discarded because the filter
\* has changed, that cannot be read, or at which a handler throws.
Receive(r) ==
  LET p == PlayerOf[r]
      page == answer[r].page
  IN /\ answer[r] # NoAnswer
     /\ Expects(r)
     /\ call' = [call EXCEPT ![p] = None]
     /\ answer' = [answer EXCEPT ![r] = NoAnswer]
     /\ \/ /\ answer[r] = Error
           /\ UNCHANGED <<cursor, got, faults>>
        \/ /\ answer[r] # Error
           /\ Fault(r)
           /\ UNCHANGED <<cursor, got>>
        \/ /\ answer[r] # Error
           /\ got' = [got EXCEPT ![p] = @ \o page.events]
           /\ cursor' = [cursor EXCEPT ![p] = IF page.cursor > @ THEN page.cursor ELSE @]
           /\ UNCHANGED faults
     /\ UNCHANGED <<pc, req, polls, scan, log>>

\* EventFollower.Abandoned, or a call that timed out: the answer is lost.
Abandon(p) ==
  /\ call[p] # None
  /\ call' = [call EXCEPT ![p] = None]
  /\ Fault(call[p])
  /\ UNCHANGED <<serverVars, log, cursor, got>>

-----------------------------------------------------------------------------
\* The request of Waiting that p has open, if there is one.
Held(p) ==
  IF \E r \in Waiting : PlayerOf[r] = p
  THEN CHOOSE r \in Waiting : PlayerOf[r] = p ELSE None

\* The log is empty; the requests of Waiting have read it and wait.
Init ==
  /\ log = <<>>
  /\ pc = [r \in Requests |-> IF r \in Waiting THEN "wait" ELSE "idle"]
  /\ req = [r \in Requests |->
              IF r \in Waiting
              THEN LET from == Start[PlayerOf[r]]
                   IN [NewReq(from) EXCEPT !.page = PageAfter(PlayerOf[r], from)]
              ELSE NewReq(0)]
  /\ polls = [p \in Players |-> Held(p)]
  /\ scan = NoScan
  /\ answer = [r \in Requests |-> NoAnswer]
  /\ call = [p \in Players |-> Held(p)]
  /\ cursor = Start
  /\ got = [p \in Players |-> <<>>]
  /\ faults = 0

\* The steps a handler takes by itself.
Handler(r) ==
  \/ Open(r) \/ Read(r) \/ Wake(r)
  \/ Await(r) \/ StartScan(r) \/ ScanRead(r) \/ Publish(r) \/ Close(r)

Next ==
  \/ \E slot \in Slots : Apply(slot)
  \/ \E r \in Requests :
       \/ Send(r) \/ Receive(r) \/ Timeout(r) \/ Notice(r)
       \/ ReadFails(r) \/ RunnerStops(r) \/ ScanFails(r)
       \/ Open(r) \/ Read(r) \/ Wake(r)
       \/ Await(r) \/ StartScan(r) \/ ScanRead(r) \/ Publish(r) \/ Close(r)
  \/ \E p \in Players : Abandon(p)

\* A handler that can go on does, nothing else is assumed:
\* no timeout, no client and no slot to come.
Fairness ==
  \A r \in Requests : WF_vars(Handler(r) \/ ScanFails(r))

Spec == Init /\ [][Next]_vars /\ Fairness

-----------------------------------------------------------------------------
(* Properties *)

\* Every variable keeps its type.
TypeOK ==
  /\ applied \in 0..MaxSlot
  /\ \A p \in Players : polls[p] = None \/ PlayerOf[polls[p]] = p
  /\ \A r \in Requests :
       /\ pc[r] \in {"idle", "sent", "refused", "read", "wait", "await", "scan",
                     "publish", "closing", "done"}
       /\ answer[r].kind \in {"none", "page", "error"}
       /\ {req[r].seen, req[r].woke, req[r].scanned} \subseteq 0..applied
  /\ scan.covers \subseteq Requests

\* The sequence s tells p all of the slots after a and up to b: it goes forward
\* through them, says nothing that they did not bring p, and misses nothing
\* except a leaderboard_changed that a later one of its tournament follows in s.
Tells(p, s, a, b) ==
  /\ \A i, j \in 1..Len(s) : i < j => s[i].slot < s[j].slot
  /\ \A i \in 1..Len(s) :
       /\ a < s[i].slot /\ s[i].slot <= b
       /\ s[i].events # {} /\ s[i].events \subseteq log[s[i].slot][p]
  /\ \A n \in 1..b : n > a => \A e \in log[n][p] :
       \E i \in 1..Len(s) :
         /\ e \in s[i].events
         /\ s[i].slot = n \/ (e \in Boards /\ s[i].slot > n)

\* An answer with a page tells the player all that follows the request's cursor
\* up to the cursor it returns, and no tournament's leaderboard_changed twice:
\* also the answer that follows waits, shared scans and a newer request
\* (handleEvents, eventItems, the rules of GET /v1/events).
AnswersAreExact ==
  \A r \in Requests : answer[r].kind = "page" =>
    LET from == answer[r].from
        page == answer[r].page
        s == page.events
    IN /\ page.cursor >= from
       /\ Tells(PlayerOf[r], s, from, Lower(page.cursor, applied))
       /\ \A i, j \in 1..Len(s) : s[i].events \cap s[j].events \cap Boards # {} => i = j

\* A client is handed each event once and in slot order, over all its pages and
\* calls given up, and nothing that its cursor has passed is missing, except a
\* leaderboard_changed that a later one of its tournament has followed (the
\* promise of EventFollower.Received; the events of a page are handed over
\* again only after a handler threw).
EachEventOnce ==
  \A p \in Players : Tells(p, got[p], Start[p], Lower(cursor[p], applied))

\* A handler that was not superseded is the one registered for its player, a
\* registered one is running, and the registrations never exceed the limit
\* (openPoll, closePoll).
RegisteredIffOpen ==
  /\ \A r \in Requests :
       Active(r) /\ ~req[r].superseded => polls[PlayerOf[r]] = r
  /\ \A p \in Players : polls[p] # None => Active(polls[p]) /\ ~req[polls[p]].superseded
  /\ Cardinality({p \in Players : polls[p] # None}) <= MaxEventPolls

\* An open request that is superseded, or whose player has events after its
\* cursor.
Due(r) ==
  /\ Active(r)
  /\ req[r].superseded \/ HasEvents(PlayerOf[r], req[r].from)

\* Requests that are due end, with no help of a timeout: as every client makes
\* finitely many here, from some time on none is due (openPoll, WaitApplied,
\* awaitEvents).
DueRequestsEnd == <>[](\A r \in Requests : ~Due(r))

=============================================================================
