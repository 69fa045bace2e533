----------------------------- MODULE AdminTables -----------------------------
(***************************************************************************)
(* The tables of the administrator's pages: rooms, members and audit log.  *)
(* Each is filtered, cut into pages and drawn anew whenever its rows       *)
(* change.  The rows of `rooms' come with every dashboard message, those   *)
(* of `members' by a request that every dashboard message starts, those    *)
(* of `audit' both ways.  A behaviour follows one of the three tables.     *)
(*                                                                         *)
(* The server's data is a version; a version has a number of rows.         *)
(***************************************************************************)
EXTENDS Naturals, Sequences, FiniteSets

CONSTANTS
    Rows,       \* Rows[v]: how many rows version v has
    Sizes,      \* PAGE_SIZE_OPTIONS, AUDIT_PAGE_SIZE_OPTIONS
    Outbound    \* adminWSOutboundQueue

LastVersion == Len(Rows)        \* bound: how often the server's data changes
Versions == 0 .. LastVersion
Nothing == 0                    \* the version of a page that was just opened
None == LastVersion + 1         \* no version: no request, no message
Sent == LastVersion + 2         \* a request the server has not read yet

ASSUME TablesAssumption ==
    /\ Rows \in Seq(Nat) /\ Rows # <<>>
    /\ Sizes \subseteq Nat \ {0} /\ Sizes # {}
    /\ Outbound \in Nat \ {0}

VARIABLES
    viewed,     \* the table this behaviour follows
    data,       \* the version the server is at
    outbox,     \* versions on their way to the page: the client's send channel
    making,     \* a message that was built but not queued yet
    asking,     \* a request for the rows: None, Sent, or the version it read
    clearing,   \* the answer to a request to empty the audit log
    held,       \* latestHub, latestMembers, auditEntries
    pageNo, pageSize, narrow,   \* current page, page size, a filter is applied
    drawn,      \* the rows in the table's body
    caught      \* a tile of the live page cannot be stopped: its member has gone,
                \* its room has not, and its connection is lost (WatchSession)

tablesVars == <<viewed, data, outbox, making, asking, clearing, held, pageNo,
                pageSize, narrow, drawn, caught>>

RowsOf(v) == IF v = Nothing THEN {} ELSE 1 .. Rows[v]

\* The rows a filter leaves; any filter that keeps some rows and drops others.
Filtered(v, f) == IF f THEN {i \in RowsOf(v) : i % 2 = 1} ELSE RowsOf(v)

\* The place of a row in the table; the audit log shows the latest row first.
Place(i, rows) ==
    Cardinality({j \in rows : IF viewed = "audit" THEN j > i ELSE j < i})

PagesFor(n, size) == IF n = 0 THEN 1 ELSE (n + size - 1) \div size
Pages(v, size, f) == PagesFor(Cardinality(Filtered(v, f)), size)

Slice(v, p, size, f) ==
    LET rows == Filtered(v, f) IN
    {i \in rows : Place(i, rows) >= (p - 1) * size /\ Place(i, rows) < p * size}

Clamped(p, v, size, f) ==
    IF p > Pages(v, size, f) THEN Pages(v, size, f) ELSE IF p < 1 THEN 1 ELSE p

\* Mutant: rows are drawn for the page that was current, even if it is gone.
DrawUnclamped(v, p, size, f) ==
    /\ held' = v
    /\ pageNo' = p
    /\ pageSize' = size
    /\ narrow' = f
    /\ drawn' = Slice(v, p, size, f)

Draw(v, p, size, f) ==
    /\ held' = v
    /\ pageNo' = Clamped(p, v, size, f)
    /\ pageSize' = size
    /\ narrow' = f
    /\ drawn' = Slice(v, pageNo', size, f)

\* The audit log goes back to its first page when the current one is gone.
Receive(v) ==
    Draw(v, IF viewed = "audit" /\ pageNo > Pages(v, pageSize, narrow) THEN 1 ELSE pageNo,
         pageSize, narrow)

tableVars == <<held, pageNo, pageSize, narrow, drawn>>
-----------------------------------------------------------------------------
(* The server: its data changes; messages about it are built and queued. *)

Change ==
    /\ data < LastVersion
    /\ data' = data + 1
    /\ UNCHANGED <<viewed, caught, outbox, making, asking, clearing, tableVars>>

\* Mutant: a message is queued whether there is room for it or not.
QueueUnbounded(v) == outbox' = Append(outbox, v)

\* A message that finds the channel full is dropped.
Queue(v) == outbox' = IF Len(outbox) < Outbound THEN Append(outbox, v) ELSE outbox

\* broadcastHub, broadcastAudit: built, then queued, with other messages between.
Build ==
    /\ making = None
    /\ making' = data
    /\ UNCHANGED <<viewed, caught, data, outbox, asking, clearing, tableVars>>

Broadcast ==
    /\ making # None
    /\ Queue(making)
    /\ making' = None
    /\ UNCHANGED <<viewed, caught, data, asking, clearing, tableVars>>

\* A refresh the page asked for: by its poll, a tab or the refresh button.
Refresh ==
    /\ Queue(data)
    /\ UNCHANGED <<viewed, caught, data, making, asking, clearing, tableVars>>
-----------------------------------------------------------------------------
(* The page: messages and answers. *)

\* Mutant: a dashboard message no longer starts a request for the members.
MessageAlone ==
    /\ outbox # <<>>
    /\ outbox' = Tail(outbox)
    /\ IF viewed = "members" THEN UNCHANGED tableVars ELSE Receive(Head(outbox))
    /\ UNCHANGED <<viewed, caught, data, making, asking, clearing>>

\* The rooms are drawn, then the tiles are compared with them, which throws if one is
\* caught: then the log is drawn only by a message about nothing else, and no members
\* are requested.  One request at a time: a message that comes meanwhile starts none.
Message ==
    /\ outbox # <<>>
    /\ outbox' = Tail(outbox)
    /\ \/ /\ viewed = "rooms" \/ viewed = "audit"
          /\ Receive(Head(outbox))
          /\ UNCHANGED asking
       \/ /\ viewed = "members" /\ ~caught
          /\ asking' = IF asking = None THEN Sent ELSE asking
          /\ UNCHANGED tableVars
       \/ /\ viewed # "rooms" /\ caught
          /\ UNCHANGED <<asking, tableVars>>
    /\ UNCHANGED <<viewed, caught, data, making, clearing>>

TileCaught ==
    /\ caught' = ~caught
    /\ UNCHANGED <<viewed, data, outbox, making, asking, clearing, tableVars>>

\* The members tab, a kick or a dissolved room, the audit tab and its button.
Load ==
    /\ viewed \in {"members", "audit"}
    /\ asking = None
    /\ asking' = Sent
    /\ UNCHANGED <<viewed, caught, data, outbox, making, clearing, tableVars>>

Served ==
    /\ asking = Sent
    /\ asking' = data
    /\ UNCHANGED <<viewed, caught, data, outbox, making, clearing, tableVars>>

Loaded ==
    /\ asking \in Versions
    /\ Receive(asking)
    /\ asking' = None
    /\ UNCHANGED <<viewed, caught, data, outbox, making, clearing>>

LoadFails ==
    /\ asking # None
    /\ asking' = None
    /\ UNCHANGED <<viewed, caught, data, outbox, making, clearing, tableVars>>

\* The server empties its log and the page its table, when the answer comes.
ClearAudit ==
    /\ viewed = "audit"
    /\ clearing = None
    /\ data < LastVersion /\ Rows[data + 1] = 0
    /\ data' = data + 1
    /\ clearing' = data + 1
    /\ UNCHANGED <<viewed, caught, outbox, making, asking, tableVars>>

Cleared ==
    /\ clearing # None
    /\ Draw(clearing, 1, pageSize, narrow)
    /\ clearing' = None
    /\ UNCHANGED <<viewed, caught, data, outbox, making, asking>>
-----------------------------------------------------------------------------
(* The page: the administrator's controls.  The audit log has no filter. *)

Filter(f) ==
    /\ viewed # "audit"
    /\ Draw(held, 1, pageSize, f)
    /\ UNCHANGED <<viewed, caught, data, outbox, making, asking, clearing>>

SetSize(s) ==
    /\ Draw(held, 1, s, narrow)
    /\ UNCHANGED <<viewed, caught, data, outbox, making, asking, clearing>>

\* The arrows and the page number typed in; nothing is drawn for the same page.
GoToPage(p) ==
    LET next == Clamped(p, held, pageSize, narrow) IN
    /\ next # pageNo
    /\ Draw(held, next, pageSize, narrow)
    /\ UNCHANGED <<viewed, caught, data, outbox, making, asking, clearing>>

TablesInit ==
    /\ viewed \in {"rooms", "members", "audit"}
    /\ data = 1
    /\ outbox = <<>>
    /\ making = None
    /\ asking = None
    /\ clearing = None
    /\ held = Nothing
    /\ pageNo = 1
    /\ pageSize \in Sizes
    /\ narrow = FALSE
    /\ drawn = {}
    /\ caught = FALSE

TablesNext ==
    \/ Change \/ Build \/ Broadcast \/ Refresh
    \/ Message \/ TileCaught \/ Load \/ Served \/ Loaded \/ LoadFails
    \/ ClearAudit \/ Cleared
    \/ \E f \in BOOLEAN : Filter(f)
    \/ \E s \in Sizes : SetSize(s)
    \/ \E p \in 0 .. Pages(held, pageSize, narrow) + 1 : GoToPage(p)

\* Messages are delivered, requests answered or refused, and built ones queued.
TablesFairness ==
    /\ WF_tablesVars(Message)
    /\ WF_tablesVars(Broadcast)
    /\ WF_tablesVars(Served \/ Loaded)
    /\ WF_tablesVars(Cleared)

TablesSpec == TablesInit /\ [][TablesNext]_tablesVars /\ TablesFairness
-----------------------------------------------------------------------------
TablesTypeOK ==
    /\ viewed \in {"rooms", "members", "audit"}
    /\ data \in 1 .. LastVersion
    /\ outbox \in UNION {[1 .. n -> Versions] : n \in 0 .. Outbound}
    /\ making \in Versions \cup {None}
    /\ asking \in Versions \cup {None, Sent}
    /\ clearing \in Versions \cup {None}
    /\ held \in Versions
    /\ pageNo \in Nat \ {0}
    /\ pageSize \in Sizes
    /\ narrow \in BOOLEAN
    /\ drawn \subseteq RowsOf(held)
    /\ caught \in BOOLEAN

\* However messages, answers, filters, sizes and jumps follow each other, the
\* table shows rows if there are any, they are those of the current page of the
\* data it holds, and turning the pages shows every row on exactly one of them.
EveryRowIsOnOnePage ==
    LET rows == Filtered(held, narrow)
        pages == 1 .. Pages(held, pageSize, narrow)
    IN  /\ drawn = Slice(held, pageNo, pageSize, narrow)
        /\ rows # {} => drawn # {}
        /\ \A i \in rows : Cardinality({p \in pages : i \in Slice(held, p, pageSize, narrow)}) = 1

\* As long as refreshes are asked for and requests do not fail, the table ends up
\* with the server's data, whatever stale messages and answers were on their way; those
\* of members and log only if no tile of a lost connection stays caught on the wall.
TablesCatchUp ==
    /\ []<><<Refresh>>_tablesVars
    /\ <>[][~LoadFails]_tablesVars
    /\ <>[](viewed = "rooms" \/ ~caught)
    => <>[](held = data)
=============================================================================
