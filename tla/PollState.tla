-------------------------------- MODULE PollState --------------------------------
(***************************************************************************)
(* Sockets with the poller and the reaper of nng, the dialer and the       *)
(* listener that make them, and what is promised about them.  PollQueue    *)
(* says how platform/posix keeps it.                                       *)
(***************************************************************************)
EXTENDS Integers, Sequences, FiniteSets

CONSTANTS
  DialConns,    \* connections the dialer may make
  AcceptConns,  \* connections the listener may accept
  Listener,     \* {} or a set of one
  Ops,          \* the operations used on connections, of {"in", "out"}
  HangUp,       \* whether the kernel reports the hang-up
  Shortage      \* whether memory and descriptors may run out

Conns == DialConns \cup AcceptConns
Fds == Conns \cup Listener
Kinds == {"in", "out"}

VARIABLES
  link,     \* what the kernel knows of a socket
  data,     \* what it could do at once: "in", "out"
  pfd,      \* the fields of nni_posix_pfd, and what of it is armed in the kernel
  conn,     \* where a connection is; its operations; c->closed
  dialaio, acceptaio,
  dialer,   \* nni_tcp_dialer
  reaper,   \* the connections given to the reaper, and how far the first one is
  pollq,    \* reapq and evfd of nni_posix_pollq
  poller,   \* the events taken, the one in work, whether to reap
  panicked

pollVars == <<link, data, pfd, conn, dialaio, acceptaio, dialer, reaper, pollq, poller, panicked>>

-----------------------------------------------------------------------------
(* Properties.                                                             *)

(* The types of the variables.                                             *)
PollTypeOK ==
  /\ link \in [Fds -> {"none", "new", "connecting", "up", "failed"}]
  /\ data \in [Fds -> SUBSET Kinds]
  /\ pfd \in [Fds -> [events : SUBSET Kinds, armed : SUBSET {"in", "out", "err", "hup"},
                       cb : {"none", "dial", "conn", "listen"},
                       closing : BOOLEAN, closed : BOOLEAN]]
  /\ conn \in [Conns -> [st : {"none", "open", "dialing", "up", "dead", "gone"},
                          closed : BOOLEAN, in : {"idle", "pending"}, out : {"idle", "pending"}]]
  /\ dialaio \in [DialConns -> {"idle", "pending", "ok", "error"}]
  /\ acceptaio \in {"idle", "pending"}
  /\ dialer \in [closed : BOOLEAN, fini : BOOLEAN, ref : Nat, freed : BOOLEAN]
  /\ reaper \in [list : Seq(Conns), waits : BOOLEAN]
  /\ pollq \in [reapq : SUBSET Conns, evfd : BOOLEAN]
  /\ poller \in [batch : Seq([fd : Fds \cup {"evfd"}, mask : SUBSET {"in", "out", "err"}]),
                  cur : [fd : Fds \cup {"none"}, mask : SUBSET {"in", "out", "err"},
                         cb : {"none", "dial", "conn", "listen"}],
                  reap : BOOLEAN]
  /\ panicked \in BOOLEAN

InFlight(c) == poller.cur.fd = c \/ \E i \in DOMAIN poller.batch : poller.batch[i].fd = c

\* What the poller has taken is not freed before it is through with it: the reaper is
\* only let go between two batches.
PfdOutlives == \A c \in Conns : InFlight(c) => conn[c].st # "gone"

Pending(r) == {k \in Kinds : r[k] = "pending"}

Waits(c) == IF c \in Listener THEN IF acceptaio = "pending" THEN {"in"} ELSE {}
            ELSE IF conn[c].st = "dialing" THEN {"out"} ELSE Pending(conn[c])

\* No lost wake-up: whatever waits for a descriptor that is open is armed, or the poller
\* is about to look at it.
WaitIsArmed ==
  \A c \in Fds : ~pfd[c].closing /\ ~InFlight(c) => Waits(c) \subseteq pfd[c].armed

\* ref counts the connections that may call the dialer, and it is freed after them.
DialerOutlives ==
  LET alive == {c \in DialConns : conn[c].st \notin {"none", "gone"}}
  IN /\ dialer.ref = Cardinality(alive) + (IF dialer.fini THEN 0 ELSE 1)
     /\ dialer.freed <=> dialer.ref = 0

\* Whatever the order of events, callbacks, operations and closes, no descriptor is
\* freed under the poller, no wake-up is lost and the dialer outlives its connections.
PollSound == PollTypeOK /\ PfdOutlives /\ WaitIsArmed /\ DialerOutlives

==================================================================================
