------------------------------- MODULE Pacing -------------------------------
(***************************************************************************)
(* _pace_host (dynamic.py): the least gap between two requests of one      *)
(* process to one host.  A request reserves the host's next free slot      *)
(* under a lock and sleeps until then outside it; the worker threads of    *)
(* the API server do so at the same time.                                  *)
(***************************************************************************)
EXTENDS Integers, Sequences

CONSTANTS
  Threads,
  Processes,
  ProcessOf,  \* whose module state a thread shares
  Hosts,      \* a host is the sequence of its labels, the last one first
  Rules,      \* _HOST_INTERVALS, in order
  Default,    \* _REQUEST_MIN_INTERVAL_SEC
  MaxTime,    \* bound: ticks of the monotonic clock
  MaxLife,    \* bound: how often a process starts
  MaxMade     \* bound: requests of a thread

-----------------------------------------------------------------------------
(* _interval_for: the first rule whose suffix the host has. *)

Covers(suffix, host) ==
  Len(suffix) <= Len(host) /\ SubSeq(host, 1, Len(suffix)) = suffix

IntervalOf(host) ==
  LET hits == {i \in 1..Len(Rules) : Covers(Rules[i].suffix, host)} IN
  IF hits = {} THEN Default
  ELSE Rules[CHOOSE i \in hits : \A k \in hits : i <= k].gap

ASSUME PacingAssumption ==
  /\ ProcessOf \in [Threads -> Processes]
  /\ \A h \in Hosts : IntervalOf(h) \in Nat
  /\ MaxTime \in Nat /\ MaxLife \in Nat /\ MaxMade \in Nat

VARIABLES
  now,       \* time.monotonic()
  life,      \* which run of the program each process is
  slotAt,    \* _next_slot_at, by process
  reserved,  \* the requests that have a slot
  sent,      \* those of them that went out
  made       \* history: how many requests each thread has begun

paceVars == <<now, life, slotAt, reserved, sent, made>>

Request == [by : Threads, life : Nat, no : Nat, to : Hosts, slot : Nat]

PaceTypeOK ==
  /\ now \in Nat
  /\ life \in [Processes -> Nat]
  /\ slotAt \in [Processes -> [Hosts -> Nat]]
  /\ reserved \subseteq Request
  /\ sent \subseteq reserved
  /\ made \in [Threads -> Nat]

NoSlots == [h \in Hosts |-> 0]

PaceInit ==
  /\ now = 0
  /\ life = [p \in Processes |-> 0]
  /\ slotAt = [p \in Processes |-> NoSlots]
  /\ reserved = {}
  /\ sent = {}
  /\ made = [t \in Threads |-> 0]

-----------------------------------------------------------------------------
\* What a thread has asked for in this life of its process.
Made(t) == {r \in reserved : r.by = t /\ r.life = life[ProcessOf[t]]}

Later(a, b) == IF a < b THEN b ELSE a

\* Faulty variant: the slots of an idle host are saved up.
ReserveSaved(t) ==
  \E h \in Hosts :
    LET p == ProcessOf[t]  slot == Later(now, slotAt[p][h]) IN
    /\ Made(t) \subseteq sent /\ made[t] < MaxMade
    /\ IntervalOf(h) > 0
    /\ slotAt' = [slotAt EXCEPT ![p][h] = @ + IntervalOf(h)]
    /\ reserved' = reserved \cup
         {[by |-> t, life |-> life[p], no |-> made[t], to |-> h, slot |-> slot]}
    /\ made' = [made EXCEPT ![t] = @ + 1]
    /\ UNCHANGED <<now, life, sent>>

\* One step: the lock is held.  A host without an interval is not paced.
Reserve(t) ==
  \E h \in Hosts :
    LET p == ProcessOf[t]  slot == Later(now, slotAt[p][h]) IN
    /\ Made(t) \subseteq sent /\ made[t] < MaxMade
    /\ IntervalOf(h) > 0
    /\ slotAt' = [slotAt EXCEPT ![p][h] = slot + IntervalOf(h)]
    /\ reserved' = reserved \cup
         {[by |-> t, life |-> life[p], no |-> made[t], to |-> h, slot |-> slot]}
    /\ made' = [made EXCEPT ![t] = @ + 1]
    /\ UNCHANGED <<now, life, sent>>

\* sleep is over, and get_http_client's shared client sends the request; how
\* long after the slot is up to the scheduler.
Send(t) ==
  \E r \in Made(t) :
    /\ r \notin sent
    /\ now >= r.slot
    /\ sent' = sent \cup {r}
    /\ UNCHANGED <<now, life, slotAt, reserved, made>>

\* The process ends (close_http_client) and the next timer starts it again,
\* with a table of its own.
Restart(p) ==
  /\ life[p] < MaxLife
  /\ life' = [life EXCEPT ![p] = @ + 1]
  /\ slotAt' = [slotAt EXCEPT ![p] = NoSlots]
  /\ UNCHANGED <<now, reserved, sent, made>>

Tick ==
  /\ now < MaxTime
  /\ now' = now + 1
  /\ UNCHANGED <<life, slotAt, reserved, sent, made>>

PaceNext ==
  \/ \E t \in Threads : Reserve(t) \/ Send(t)
  \/ \E p \in Processes : Restart(p)
  \/ Tick

PaceSpec == PaceInit /\ [][PaceNext]_paceVars

-----------------------------------------------------------------------------
(* Properties *)

\* "Concurrent callers each get their own slot instead of all waking on the
\* same one": while a process lives, the slots its threads have at one host lie
\* an interval apart, and nothing is sent before its slot, whatever the order
\* in which the threads wake up.
Spaced ==
  /\ \A r, q \in reserved :
       (r # q /\ r.to = q.to /\ r.life = q.life /\ ProcessOf[r.by] = ProcessOf[q.by])
         => r.slot + IntervalOf(r.to) <= q.slot \/ q.slot + IntervalOf(r.to) <= r.slot
  /\ \A r \in sent : r.slot <= now
=============================================================================
