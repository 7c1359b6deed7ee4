------------------------------ MODULE Mailbox ------------------------------
(***************************************************************************)
(* One agent's mailbox on the three lanes.  The file store rewrites the    *)
(* whole box under an flock, which purge() does not take; the Redis store  *)
(* pushes and then trims, and marks a message by its index in the list it  *)
(* has read; the Postgres store inserts and then deletes the oldest.       *)
(*                                                                         *)
(* A client is a worker that reports or a person at `karo mail'.  A box    *)
(* without messages and a box without a file are the same: no operation    *)
(* leaves an empty file.                                                   *)
(***************************************************************************)
EXTENDS Integers, Sequences, FiniteSets, FiniteSetsExt

CONSTANTS
  Client,        \* the processes that use the mailbox
  NoClient,
  HardLimit,     \* [Client -> Nat]: the spec's hardLimit, or the CLI's own
  ReadersAlone,  \* whether nothing overlaps with a Redis mark_read
  MaxSends,      \* bound on the number of messages
  MaxMarks,      \* bound on the number of mark_reads and purges
  MaxDeaths      \* bound on the number of deaths

ASSUME MailboxAssumption ==
  /\ IsFiniteSet(Client) /\ Client # {} /\ NoClient \notin Client
  /\ HardLimit \in [Client -> Nat \ {0}]
  /\ ReadersAlone \in BOOLEAN
  /\ MaxSends \in Nat /\ MaxMarks \in Nat /\ MaxDeaths \in Nat

VARIABLES
  lane,    \* "file", "redis" or "postgres"
  box,     \* the stored messages, oldest first
  flock,   \* the client that holds the file lock
  pc,      \* [Client -> Point]
  op,      \* [Client -> Operation]: what the client is doing
  seen,    \* [Client -> the messages the client has read]
  sent,    \* the number of messages that clients have composed
  marks,   \* history: how many mark_reads and purges have begun
  log,     \* history: the messages in the order of their delivery
  purged,  \* history: the messages that have been in the box at a purge
  gone,    \* history: those of them that the holder of the lock had not read
  deaths   \* history: how many clients have died

vars == <<lane, box, flock, pc, op, seen, sent, marks, log, purged, gone, deaths>>

Id == 1..MaxSends

Message == [id : Id, read : BOOLEAN]

Operation == [kind : {"none", "send", "mark", "purge"}, id : 0..MaxSends]

NoOperation == [kind |-> "none", id |-> 0]

\* What a client does next: nothing; begin; file: read, write, unlink;
\* Redis and Postgres: trim; Redis: set.
Point == {"idle", "begin", "read", "write", "unlink", "trim", "set"}

IdsOf(messages) == {messages[i].id : i \in DOMAIN messages}

MailboxTypeOK ==
  /\ lane \in {"file", "redis", "postgres"}
  /\ box \in Seq(Message)
  /\ flock \in Client \cup {NoClient}
  /\ pc \in [Client -> Point]
  /\ flock # NoClient => pc[flock] \in {"read", "write"}
  /\ op \in [Client -> Operation]
  /\ seen \in [Client -> Seq(Message)]
  /\ sent \in 0..MaxSends /\ marks \in 0..MaxMarks /\ deaths \in 0..MaxDeaths
  /\ log \in Seq(Id)
  /\ gone \subseteq purged /\ purged \subseteq Id

Init ==
  /\ lane \in {"file", "redis", "postgres"}
  /\ box = <<>>
  /\ flock = NoClient
  /\ pc = [c \in Client |-> "idle"]
  /\ op = [c \in Client |-> NoOperation]
  /\ seen = [c \in Client |-> <<>>]
  /\ sent = 0 /\ marks = 0 /\ deaths = 0
  /\ log = <<>>
  /\ purged = {} /\ gone = {}

-----------------------------------------------------------------------------
KeptOldest(messages, limit) ==
  IF Len(messages) > limit THEN SubSeq(messages, 1, limit) ELSE messages
\* The newest `limit' messages.
Kept(messages, limit) ==
  IF Len(messages) > limit
  THEN SubSeq(messages, Len(messages) - limit + 1, Len(messages))
  ELSE messages

Marked(messages, id) ==
  [i \in DOMAIN messages |-> [messages[i] EXCEPT !.read = @ \/ messages[i].id = id]]

\* A new message; a message that was in the inbox; the whole box.
Start(c) ==
  /\ pc[c] = "idle"
  /\ \/ /\ sent < MaxSends
        /\ op' = [op EXCEPT ![c] = [kind |-> "send", id |-> sent + 1]]
        /\ sent' = sent + 1
        /\ UNCHANGED marks
     \/ /\ marks < MaxMarks
        /\ marks' = marks + 1
        /\ \/ \E id \in IdsOf(box) : op' = [op EXCEPT ![c] = [kind |-> "mark", id |-> id]]
           \/ op' = [op EXCEPT ![c] = [kind |-> "purge", id |-> 0]]
        /\ UNCHANGED sent
  /\ pc' = [pc EXCEPT ![c] = "begin"]
  /\ UNCHANGED <<lane, box, flock, seen, log, purged, gone, deaths>>

Begins(c, kind) == pc[c] = "begin" /\ op[c].kind = kind

\* The operation returns, or raises; an flock it holds is released.
Over(c) ==
  /\ pc' = [pc EXCEPT ![c] = "idle"]
  /\ op' = [op EXCEPT ![c] = NoOperation]
  /\ seen' = [seen EXCEPT ![c] = <<>>]
  /\ flock' = IF flock = c THEN NoClient ELSE flock

GoOn(c, point) ==
  /\ pc' = [pc EXCEPT ![c] = point]
  /\ UNCHANGED <<op, flock>>

\* The box becomes `messages', and with them a message is delivered.
Deliver(id, messages) ==
  /\ box' = messages
  /\ log' = Append(log, id)

Emptied ==
  /\ box' = <<>>
  /\ purged' = purged \cup IdsOf(box)
  /\ gone' = gone \cup (IdsOf(box) \ (IF flock = NoClient THEN {} ELSE IdsOf(seen[flock])))

-----------------------------------------------------------------------------
LockIgnored(c) == TRUE

LockFree(c) == flock = NoClient

\* Lock, and see whether there is a box.
Enter(c) ==
  /\ lane = "file" /\ pc[c] = "begin" /\ op[c].kind \in {"send", "mark"}
  /\ LockFree(c)
  /\ IF box = <<>> /\ op[c].kind = "mark"
     THEN Over(c)
     ELSE /\ flock' = c
          /\ pc' = [pc EXCEPT ![c] = IF box = <<>> THEN "write" ELSE "read"]
          /\ UNCHANGED <<op, seen>>
  /\ UNCHANGED <<lane, box, sent, marks, log, purged, gone, deaths>>

\* read_text raises if a purge has come in between.
ReadBox(c) ==
  /\ pc[c] = "read"
  /\ IF box = <<>> THEN Over(c)
     ELSE seen' = [seen EXCEPT ![c] = box] /\ GoOn(c, "write")
  /\ UNCHANGED <<lane, box, sent, marks, log, purged, gone, deaths>>

WriteBox(c) ==
  /\ pc[c] = "write"
  /\ IF op[c].kind = "send"
     THEN Deliver(op[c].id, Kept(Append(seen[c], [id |-> op[c].id, read |-> FALSE]), HardLimit[c]))
     ELSE box' = Marked(seen[c], op[c].id) /\ UNCHANGED log
  /\ Over(c)
  /\ UNCHANGED <<lane, sent, marks, purged, gone, deaths>>

PurgeLook(c) ==
  /\ lane = "file" /\ Begins(c, "purge")
  /\ IF box = <<>> THEN Over(c) ELSE GoOn(c, "unlink") /\ UNCHANGED seen
  /\ UNCHANGED <<lane, box, sent, marks, log, purged, gone, deaths>>

\* unlink raises if another purge has been faster.
Unlink(c) ==
  /\ pc[c] = "unlink"
  /\ Emptied
  /\ Over(c)
  /\ UNCHANGED <<lane, sent, marks, log, deaths>>

-----------------------------------------------------------------------------
Undisturbed(c) == ReadersAlone => \A d \in Client \ {c} : pc[d] # "set"

Added(c) ==
  /\ Begins(c, "send")
  /\ Undisturbed(c)
  /\ Deliver(op[c].id, Append(box, [id |-> op[c].id, read |-> FALSE]))
  /\ GoOn(c, "trim")
  /\ UNCHANGED <<lane, seen, sent, marks, purged, gone, deaths>>

Push(c) == lane = "redis" /\ Added(c)

Insert(c) == lane = "postgres" /\ Added(c)

Cut(c) ==
  /\ pc[c] = "trim"
  /\ Undisturbed(c)
  /\ box' = Kept(box, HardLimit[c])
  /\ Over(c)
  /\ UNCHANGED <<lane, sent, marks, log, purged, gone, deaths>>

LTrim(c) == lane = "redis" /\ Cut(c)

DeleteOldest(c) == lane = "postgres" /\ Cut(c)

\* mark_read reads the list; without the message in it, it returns.
LRange(c) ==
  /\ lane = "redis" /\ Begins(c, "mark")
  /\ ReadersAlone => \A d \in Client \ {c} : pc[d] \in {"idle", "begin"}
  /\ IF op[c].id \in IdsOf(box)
     THEN seen' = [seen EXCEPT ![c] = box] /\ GoOn(c, "set")
     ELSE Over(c)
  /\ UNCHANGED <<lane, box, sent, marks, log, purged, gone, deaths>>

SetFirst(messages, id) == 1

IndexOf(messages, id) == CHOOSE i \in DOMAIN messages : messages[i].id = id

\* and writes to the index where the message was; no such index, an error.
LSet(c) ==
  LET i == IndexOf(seen[c], op[c].id) IN
  /\ pc[c] = "set"
  /\ box' = IF i \in DOMAIN box THEN [box EXCEPT ![i] = [id |-> op[c].id, read |-> TRUE]] ELSE box
  /\ Over(c)
  /\ UNCHANGED <<lane, sent, marks, log, purged, gone, deaths>>

MarkRow(c) ==
  /\ lane = "postgres" /\ Begins(c, "mark")
  /\ box' = Marked(box, op[c].id)
  /\ Over(c)
  /\ UNCHANGED <<lane, sent, marks, log, purged, gone, deaths>>

Delete(c) ==
  /\ lane \in {"redis", "postgres"} /\ Begins(c, "purge")
  /\ Undisturbed(c)
  /\ Emptied
  /\ Over(c)
  /\ UNCHANGED <<lane, sent, marks, log, deaths>>

Die(c) ==
  /\ pc[c] # "idle"
  /\ deaths < MaxDeaths
  /\ deaths' = deaths + 1
  /\ Over(c)
  /\ UNCHANGED <<lane, box, sent, marks, log, purged, gone>>

Next ==
  \E c \in Client :
    \/ Start(c) \/ Die(c)
    \/ Enter(c) \/ ReadBox(c) \/ WriteBox(c) \/ PurgeLook(c) \/ Unlink(c)
    \/ Push(c) \/ LTrim(c) \/ LRange(c) \/ LSet(c)
    \/ Insert(c) \/ DeleteOldest(c) \/ MarkRow(c)
    \/ Delete(c)

Spec == Init /\ [][Next]_vars

-----------------------------------------------------------------------------
DeliveredBefore(a, b) ==
  \E i, j \in DOMAIN log : i < j /\ log[i] = a /\ log[j] = b

\* The box lists messages in the order of their delivery, none of them twice,
\* whichever writes, marks, trims and purges overlap.
InDeliveryOrder ==
  \A i, j \in DOMAIN box : i < j => DeliveredBefore(box[i].id, box[j].id)

MinLimit == Min({HardLimit[c] : c \in Client})

MaxLimit == Max({HardLimit[c] : c \in Client})

\* The box outgrows the limit only by the messages whose senders have yet to
\* trim, or died before they did.
BoxIsBounded ==
  LET trimming == {c \in Client : pc[c] = "trim"}
  IN  Len(box) <= MaxLimit + Cardinality(trimming) + (IF lane = "file" THEN 0 ELSE deaths)

\* The box is a bounded list of messages in the order of their delivery.
MailboxInv == MailboxTypeOK /\ InDeliveryOrder /\ BoxIsBounded

\* A delivered message leaves the box only by a purge, or when as many newer
\* ones have come as the smallest limit in use: two senders never lose one.
DeliveredIsKept ==
  \A i \in DOMAIN log :
    log[i] \in IdsOf(box) \/ log[i] \in purged \/ Len(log) - i >= MinLimit

\* A message that has been read is never unread again: no sender writes back
\* a box that it read before the mark.
ReadStaysRead ==
  [][\A i \in DOMAIN box, j \in DOMAIN box' :
       box[i].id = box'[j].id /\ box[i].read => box'[j].read]_vars

\* After a purge only the one operation in progress can bring messages back,
\* those that it had read: purge() takes no lock.
PurgedIsGone == gone \cap IdsOf(box) = {}
=============================================================================
