------------------------------- MODULE LiveBoard -------------------------------
(***************************************************************************)
(* The browser's copy of the tasks: filled by a fetch of the newest of     *)
(* them (task-board-panel.tsx, GET of app/api/tasks), changed by the       *)
(* events of a stream (src/lib/use-server-events.ts, event-bus.ts,         *)
(* app/api/events) and by drops on another column, ahead of the server,    *)
(* and fetched again by a poll that pauses while the stream is connected   *)
(* (src/lib/use-smart-poll.ts). Answers and events come over different     *)
(* connections, in any order to each other.                                *)
(***************************************************************************)
EXTENDS Naturals, Sequences, FiniteSets

CONSTANTS
  BoardTasks,    \* the tasks, numbered in the order of created_at
  Columns,       \* their statuses
  Projects,      \* what the board may be limited to: sets of tasks
  PageLimit,     \* the LIMIT of a list without a limit parameter
  MaxReconnects, \* SSE_MAX_RECONNECT_ATTEMPTS
  Moves,         \* the drags and drops that may be under way
  MaxFetches,    \* bound: fetches under way
  MaxChanges,    \* bound: writes of tasks, drags and choices of a project
  MaxDrops,      \* bound: times an open stream breaks, a fetch or a move fails
  Silently       \* whether jobs write tasks without an event

ASSUME BoardAssumption ==
  /\ BoardTasks \subseteq Nat /\ Columns # {} /\ Columns \cap {"none", "gone"} = {}
  /\ Projects \subseteq SUBSET BoardTasks /\ Projects # {}
  /\ PageLimit \in Nat /\ Silently \in BOOLEAN
  /\ {MaxReconnects, MaxFetches, MaxChanges, MaxDrops} \subseteq Nat

VARIABLES
  table,     \* the tasks in the database
  board,     \* the tasks in the store: how often each is listed, and where
  chosen,    \* projectFilter
  stream,    \* the EventSource, and the events on their way through it
  retries,   \* sseReconnectAttemptsRef
  fetches,   \* the fetches under way, with what the server answered
  moves,     \* the tasks dragged, and dropped with the server yet to agree
  visible,   \* whether the tab is visible
  changes,   \* history: writes of tasks, drags and choices of a project
  drops,     \* history: times the stream broke, a fetch or a move failed
  followed   \* history: see FollowsTable

boardVars == <<table, board, chosen, stream, retries, fetches, moves, visible, changes, drops, followed>>

None == "none"
Gone == "gone"
Row == Columns \cup {None, Gone}
Listed == [copies : Nat, at : Columns]
Event == [type : {"task.created", "task.status_changed", "task.deleted"},
          id : BoardTasks, at : Columns]
Fetch == [phase : {"asked", "answered"}, project : Projects, rows : [BoardTasks -> Row], number : Nat]
Move == [phase : {"dragged", "checked", "sent", "failed"}, id : BoardTasks, from : Columns, to : Columns]

BoardTypeOK ==
  /\ table \in [BoardTasks -> Row]
  /\ board \in [BoardTasks -> Listed]
  /\ chosen \in Projects
  /\ stream.phase \in {"connecting", "registered", "open", "waiting", "over"}
  /\ stream.events \in Seq(Event)
  /\ retries \in 0..MaxReconnects
  /\ fetches \subseteq Fetch
  /\ moves \in [Moves -> SUBSET Move]
  /\ visible \in BOOLEAN
  /\ changes \in 0..MaxChanges /\ drops \in 0..MaxDrops
  /\ followed \subseteq BoardTasks

SomeColumn == CHOOSE s \in Columns : TRUE
Asked(n, p) == [phase |-> "asked", project |-> p, rows |-> [t \in BoardTasks |-> None], number |-> n]
Unlisted == [copies |-> 0, at |-> SomeColumn]

(* The page is mounted: two hooks fetch whatever the stream does.          *)
BoardInit ==
  /\ table \in [BoardTasks -> {None, SomeColumn}]
  /\ board = [t \in BoardTasks |-> Unlisted]
  /\ chosen \in Projects
  /\ stream = [phase |-> "connecting", events |-> <<>>]
  /\ retries = 0
  /\ fetches = {Asked(0, chosen), Asked(1, chosen)}
  /\ moves = [m \in Moves |-> {}]
  /\ visible = TRUE
  /\ changes = 0 /\ drops = 0
  /\ followed = {}

Entry(row) == IF row \in Columns THEN [copies |-> 1, at |-> row] ELSE Unlisted
SetTasks(rows) == [t \in BoardTasks |-> Entry(rows[t])]

(* The newest tasks of a project, and no more of them than a list holds.   *)
Page(p) ==
  LET there == {t \in p : table[t] \in Columns}
  IN [t \in BoardTasks |->
        IF t \in there /\ Cardinality({u \in there : u > t}) < PageLimit THEN table[t] ELSE None]

(* updateTask of the store: nothing happens to a task that is not listed.  *)
Updated(list, t, at) == IF list[t].copies > 0 THEN [list EXCEPT ![t].at = at] ELSE list

(* dispatch of an event: addTask, updateTask and deleteTask of the store.  *)
Applied_NotDeleted(list, e) ==
  CASE e.type = "task.created" -> [list EXCEPT ![e.id] = [copies |-> @.copies + 1, at |-> e.at]]
    [] e.type = "task.status_changed" -> Updated(list, e.id, e.at)
    [] OTHER -> list
Applied(list, e) ==
  CASE e.type = "task.created" -> [list EXCEPT ![e.id] = [copies |-> @.copies + 1, at |-> e.at]]
    [] e.type = "task.status_changed" -> Updated(list, e.id, e.at)
    [] e.type = "task.deleted" -> [list EXCEPT ![e.id] = Unlisted]

-----------------------------------------------------------------------------
(* The server: a write of a task and its broadcast to the streams it has.  *)

(* The handler is on the bus before the browser hears that the stream is   *)
(* open, and what it sends until then waits in the response.               *)
Receives == stream.phase \in {"registered", "open"}

Count == changes < MaxChanges /\ changes' = changes + 1

Change(t, row) == Count /\ table' = [table EXCEPT ![t] = row]

Broadcast(type, t, at) ==
  stream' = IF Receives
            THEN [stream EXCEPT !.events = Append(@, [type |-> type, id |-> t, at |-> at])]
            ELSE stream

CreateRow(t, row) ==
  /\ table[t] = None
  /\ Change(t, row) /\ Broadcast("task.created", t, row)
  /\ UNCHANGED <<board, chosen, retries, fetches, moves, visible, drops, followed>>

UpdateRow(t, row) ==
  /\ table[t] \in Columns \ {row}
  /\ Change(t, row) /\ Broadcast("task.status_changed", t, row)
  /\ UNCHANGED <<board, chosen, retries, fetches, moves, visible, drops, followed>>

DeleteRow(t) ==
  /\ table[t] \in Columns
  /\ Change(t, Gone) /\ Broadcast("task.deleted", t, table[t])
  /\ UNCHANGED <<board, chosen, retries, fetches, moves, visible, drops, followed>>

(* Recurring tasks and the pull from GitHub write without a broadcast.     *)
WriteSilently(t, row) ==
  /\ Silently /\ table[t] \notin {row, Gone}
  /\ Change(t, row)
  /\ followed' = followed \ {t}
  /\ UNCHANGED <<board, chosen, stream, retries, fetches, moves, visible, drops>>

-----------------------------------------------------------------------------
(* The stream.                                                             *)

HandlerRegistered ==
  /\ stream.phase = "connecting"
  /\ stream' = [stream EXCEPT !.phase = "registered"]
  /\ UNCHANGED <<table, board, chosen, retries, fetches, moves, visible, changes, drops, followed>>

StreamOpens ==
  /\ stream.phase = "registered"
  /\ stream' = [stream EXCEPT !.phase = "open"]
  /\ retries' = 0
  /\ UNCHANGED <<table, board, chosen, fetches, moves, visible, changes, drops, followed>>

(* onerror: what was on its way is lost. It may come while connecting.     *)
StreamBreaks ==
  /\ \/ stream.phase \in {"connecting", "registered"} /\ UNCHANGED drops
     \/ stream.phase = "open" /\ drops < MaxDrops /\ drops' = drops + 1
  /\ IF retries >= MaxReconnects
     THEN stream' = [phase |-> "over", events |-> <<>>] /\ retries' = retries
     ELSE stream' = [phase |-> "waiting", events |-> <<>>] /\ retries' = retries + 1
  /\ followed' = {}
  /\ UNCHANGED <<table, board, chosen, fetches, moves, visible, changes>>

Reconnect ==
  /\ stream.phase = "waiting"
  /\ stream' = [stream EXCEPT !.phase = "connecting"]
  /\ UNCHANGED <<table, board, chosen, retries, fetches, moves, visible, changes, drops, followed>>

(* onmessage, dispatch                                                     *)
EventArrives ==
  /\ stream.phase = "open" /\ stream.events # <<>>
  /\ board' = Applied(board, Head(stream.events))
  /\ stream' = [stream EXCEPT !.events = Tail(@)]
  /\ UNCHANGED <<table, chosen, retries, fetches, moves, visible, changes, drops, followed>>

-----------------------------------------------------------------------------
(* Fetches.                                                                *)

AskBoard(p) ==
  /\ Cardinality(fetches) < MaxFetches
  /\ \E n \in 0..MaxFetches :
       /\ {f.number : f \in fetches} \cap 0..n = 0..n \ {n}
       /\ fetches' = fetches \cup {Asked(n, p)}
  /\ UNCHANGED <<table, board, stream, retries, moves, visible, drops, followed>>

(* useSmartPoll: it pauses while the tab is hidden or the stream is open.  *)
ShouldPoll_Never == FALSE
ShouldPoll == visible /\ stream.phase # "open"

Poll == ShouldPoll /\ AskBoard(chosen) /\ UNCHANGED <<chosen, changes>>

(* The refresh button, and what fetches after an edit in this browser.     *)
Refresh == visible /\ AskBoard(chosen) /\ UNCHANGED <<chosen, changes>>

ChooseProject(p) ==
  /\ visible /\ p # chosen
  /\ Count
  /\ chosen' = p
  /\ AskBoard(p)

(* GET /api/tasks: one query, after a pass that may write tasks with their *)
(* broadcasts, as any request may meanwhile.                               *)
ServerAnswers(f) ==
  /\ f.phase = "asked"
  /\ fetches' = (fetches \ {f}) \cup {[f EXCEPT !.phase = "answered", !.rows = Page(f.project)]}
  /\ UNCHANGED <<table, board, chosen, stream, retries, moves, visible, changes, drops, followed>>

(* No event about a task is on its way.                                    *)
About(t) == {k \in DOMAIN stream.events : stream.events[k].id = t}

(* storeSetTasks: the answer replaces the board, however old it is.        *)
FetchEnds(f) ==
  /\ f.phase = "answered"
  /\ board' = SetTasks(f.rows)
  /\ fetches' = fetches \ {f}
  /\ followed' = {t \in BoardTasks : Receives /\ About(t) = {} /\ Entry(f.rows[t]) = Entry(table[t])}
  /\ UNCHANGED <<table, chosen, stream, retries, moves, visible, changes, drops>>

FetchFails(f) ==
  /\ drops < MaxDrops
  /\ drops' = drops + 1
  /\ fetches' = fetches \ {f}
  /\ UNCHANGED <<table, board, chosen, stream, retries, moves, visible, changes, followed>>

-----------------------------------------------------------------------------
(* handleDrop: the status to go back to is that at the start of the drag.  *)

Becomes(m, move) == moves' = [moves EXCEPT ![m] = move]

DragTask(m, t) ==
  /\ visible /\ moves[m] = {} /\ board[t].copies > 0
  /\ \A n \in Moves : \A move \in moves[n] : move.phase # "dragged"
  /\ Count
  /\ Becomes(m, {[phase |-> "dragged", id |-> t, from |-> board[t].at, to |-> board[t].at]})
  /\ UNCHANGED <<table, board, chosen, stream, retries, fetches, visible, drops, followed>>

(* Only a drop on "done" asks for the approval first.                      *)
DropTask(m, move, to) ==
  /\ move.phase = "dragged"
  /\ IF to = move.from THEN Becomes(m, {}) /\ UNCHANGED board
     ELSE IF to = "done" THEN Becomes(m, {[move EXCEPT !.phase = "checked", !.to = to]}) /\ UNCHANGED board
     ELSE /\ Becomes(m, {[move EXCEPT !.phase = "sent", !.to = to]})
          /\ board' = Updated(board, move.id, to)
  /\ UNCHANGED <<table, chosen, stream, retries, fetches, visible, changes, drops, followed>>

ApprovalFound(m, move) ==
  /\ move.phase = "checked"
  /\ Becomes(m, {[move EXCEPT !.phase = "sent"]})
  /\ board' = Updated(board, move.id, move.to)
  /\ UNCHANGED <<table, chosen, stream, retries, fetches, visible, changes, drops, followed>>

(* PUT /api/tasks: the event is sent even if the task is gone. The answer  *)
(* may be lost.                                                            *)
ServerMoves(m, move) ==
  /\ move.phase = "sent"
  /\ table' = IF table[move.id] \in Columns THEN [table EXCEPT ![move.id] = move.to] ELSE table
  /\ Broadcast("task.status_changed", move.id, move.to)
  /\ \/ Becomes(m, {}) /\ UNCHANGED drops
     \/ Becomes(m, {[move EXCEPT !.phase = "failed"]}) /\ drops < MaxDrops /\ drops' = drops + 1
  /\ UNCHANGED <<board, chosen, retries, fetches, visible, changes, followed>>

(* There is no approval, or a request fails.                               *)
ServerRefuses(m, move) ==
  /\ move.phase \in {"checked", "sent"} /\ drops < MaxDrops
  /\ drops' = drops + 1
  /\ Becomes(m, {[move EXCEPT !.phase = "failed"]})
  /\ UNCHANGED <<table, board, chosen, stream, retries, fetches, visible, changes, followed>>

MoveReverts(m, move) ==
  /\ move.phase = "failed"
  /\ board' = Updated(board, move.id, move.from)
  /\ Becomes(m, {})
  /\ followed' = IF table[move.id] = move.from THEN followed ELSE followed \ {move.id}
  /\ UNCHANGED <<table, chosen, stream, retries, fetches, visible, changes, drops>>

SwitchTab ==
  /\ visible' = ~visible
  /\ UNCHANGED <<table, board, chosen, stream, retries, fetches, moves, changes, drops, followed>>

BoardNext ==
  \/ \E t \in BoardTasks :
       \/ \E row \in Columns : CreateRow(t, row) \/ UpdateRow(t, row) \/ WriteSilently(t, row)
       \/ DeleteRow(t)
       \/ \E m \in Moves : DragTask(m, t)
  \/ HandlerRegistered \/ StreamOpens \/ StreamBreaks \/ Reconnect \/ EventArrives
  \/ Poll \/ Refresh \/ \E p \in Projects : ChooseProject(p)
  \/ \E f \in fetches : ServerAnswers(f) \/ FetchEnds(f) \/ FetchFails(f)
  \/ \E m \in Moves : \E move \in moves[m] :
       \/ \E to \in Columns : DropTask(m, move, to)
       \/ ApprovalFound(m, move) \/ ServerMoves(m, move) \/ ServerRefuses(m, move)
       \/ MoveReverts(m, move)
  \/ SwitchTab

BoardSpec == BoardInit /\ [][BoardNext]_boardVars

-----------------------------------------------------------------------------
(* A drop has put the task where the server has yet to put it.             *)
Ahead(t) ==
  \E m \in Moves : \E move \in moves[m] :
    move.phase \in {"sent", "failed"} /\ move.id = t /\ board[t] = Entry(move.to)

(* A task is followed once an answer was right about it while the server   *)
(* knew of the stream and no event about it was on its way: also one that  *)
(* was not created yet. From then on events alone keep the board right     *)
(* about it: after the last of them the board lists it once and where the  *)
(* table has it, or not at all if it is gone, or it is ahead of the server *)
(* after a drop. So it stays, in pages of any length and whatever fetches  *)
(* are under way, until the stream breaks, an answer replaces the board, a *)
(* job writes the task without an event, or a failed drop puts it back to  *)
(* what it no longer is.                                                   *)
FollowsTable ==
  \A t \in followed : About(t) = {} => board[t] = Entry(table[t]) \/ Ahead(t)

(* While the stream is down and the tab visible, the poll brings the board *)
(* up to date, that is to the newest tasks of the chosen project, and it   *)
(* stays so: also after fetches that overtook each other, of this project  *)
(* or another, after drops that failed, and whatever was missed.           *)
Down(p) == visible /\ stream.phase # "open" /\ chosen = p
PollRepairs ==
  \A p \in Projects : <>[]Down(p) => <>[](board = SetTasks(Page(p)))

=============================================================================
