-------------------------- MODULE WitnessSchedule --------------------------
(***************************************************************************)
(* Who produces the next block, and whether anybody does:                  *)
(* libraries/chain/db_witness_schedule.cpp, the slot bookkeeping of        *)
(* db_update.cpp and the production loop of plugins/witness.               *)
(*                                                                         *)
(* Time is counted in slots since the head block; get_slot_time and        *)
(* get_slot_at_time convert between the two.  Nodes see a block before the *)
(* next slot begins; a slot without a block is one whose producer is down, *)
(* lags, or refuses.  Absolute slot and block number only matter modulo    *)
(* the size of the schedule and are kept modulo Period.                    *)
(***************************************************************************)
EXTENDS Integers, Sequences, SequencesExt

CONSTANTS
    Witnesses,    \* witness objects
    Elections,    \* sets of witnesses the votes may make active
    Nodes,        \* nodes with the witness plugin
    Owner,        \* the node that has a witness in _witnesses, with its key
    Stale,        \* nodes started with enable-stale-production
    Required,     \* _required_witness_participation, of 10000
    Window,       \* bits of recent_slots_filled: 128
    SkipSlots,    \* maintenance_skip_slots
    Period,       \* a common multiple of the sizes of Elections
    Horizon,      \* bound: slots told apart since the head block
    MaxElections, \* bound: changes of the active witnesses
    MaxRestarts   \* bound: restarts of nodes

ASSUME ScheduleAssumption ==
    /\ Elections \subseteq SUBSET Witnesses /\ Elections # {}
    /\ Owner \in [Witnesses -> Nodes] /\ Stale \subseteq Nodes
    /\ Required \in 0 .. 10000
    /\ Window \in Nat \ {0} /\ SkipSlots \in Nat /\ Period \in Nat \ {0}
    /\ \A A \in Elections : IsFiniteSet(A) /\ A # {} /\ Period % Cardinality(A) = 0
    /\ Horizon \in Nat /\ Horizon >= Window + Period
    /\ MaxElections \in Nat /\ MaxRestarts \in Nat

VARIABLES
    active,    \* gpo.active_witnesses
    schedule,  \* wso.current_shuffled_witnesses
    aslot,     \* dpo.current_aslot, modulo Period
    number,    \* dpo.head_block_number, modulo Period
    filled,    \* dpo.recent_slots_filled, oldest slot first
    clock,     \* slots from the head block to now; slot 1 is at clock 1
    enabled,   \* _production_enabled of every node
    count      \* elections and restarts so far, for the bounds

vars == <<active, schedule, aslot, number, filled, clock, enabled, count>>

-----------------------------------------------------------------------------
get_slot_at_time == IF clock < 1 THEN 0 ELSE clock

get_scheduled_witness(slot) == schedule[((aslot + slot) % Len(schedule)) + 1]

witness_participation_rate == (10000 * Cardinality({i \in 1 .. Window : filled[i] = 1})) \div Window

(* ((filled << 1) + 1) << missed, in Window bits *)
Filled(missed) ==
    LET bits == Append(filled, 1) \o [i \in 1 .. missed |-> 0]
    IN  SubSeq(bits, Len(bits) - Window + 1, Len(bits))

(* The shuffle: the order depends on the block's time and is any order. *)
Orders(A) == {s \in [1 .. Cardinality(A) -> A] : \A i, j \in DOMAIN s : i # j => s[i] # s[j]}

(* mutant: the old list is not cleared before the new one is added *)
update_witness_schedule_NotCleared ==
    IF number' % Cardinality(active') = 0
    THEN \E s \in Orders(active' \cup Range(schedule)) : schedule' = s
    ELSE schedule' = schedule

update_witness_schedule ==
    IF number' % Cardinality(active') = 0
    THEN schedule' \in Orders(active')
    ELSE schedule' = schedule

(* perform_chain_maintenance and update_maintenance_flag: the votes are    *)
(* counted, and the next slot comes SkipSlots later.                       *)
Maintenance ==
    /\ clock' = - SkipSlots
    /\ \E A \in Elections :
          /\ A # active => count.elections < MaxElections
          /\ active' = A
          /\ count' = IF A = active THEN count ELSE [count EXCEPT !.elections = @ + 1]

NoMaintenance ==
    /\ clock' = 0
    /\ UNCHANGED <<active, count>>

(* _apply_block for a block in the given slot; the counters of missed      *)
(* blocks are statistics that nothing here reads.                          *)
ApplyBlock(slot) ==
    /\ aslot' = (aslot + slot) % Period
    /\ number' = (number + 1) % Period
    /\ filled' = Filled(slot - 1)
    /\ Maintenance \/ NoMaintenance
    /\ update_witness_schedule

-----------------------------------------------------------------------------
(* maybe_produce_block *)

(* mutant: the next slot has to be in the future of the maintenance gap *)
Synced_Late == clock < 0

(* get_slot_time(1) >= now *)
Synced == clock <= 1

(* mutant: <= for < *)
Participates_Strict == witness_participation_rate > Required

Participates == witness_participation_rate >= Required

(* The loop wakes up in time, in a slot of one of its witnesses. *)
Produce(n) ==
    /\ enabled[n] \/ Synced
    /\ get_slot_at_time > 0
    /\ Owner[get_scheduled_witness(get_slot_at_time)] = n
    /\ Participates
    /\ ApplyBlock(get_slot_at_time)
    /\ enabled' = [enabled EXCEPT ![n] = TRUE]

(* The loop wakes up when it cannot produce, and finds itself synced. *)
Enable(n) ==
    /\ ~ enabled[n]
    /\ Synced
    /\ enabled' = [enabled EXCEPT ![n] = TRUE]
    /\ UNCHANGED <<active, schedule, aslot, number, filled, clock, count>>

(* A slot passes without a block.  Beyond Horizon every slot has missed    *)
(* more than the window holds and only its place in the schedule matters.  *)
Tick ==
    /\ clock' = IF clock < Horizon THEN clock + 1 ELSE Horizon - Period + 1
    /\ UNCHANGED <<active, schedule, aslot, number, filled, enabled, count>>

(* plugin_set_program_options, plugin_startup *)
Restart(n) ==
    /\ count.restarts < MaxRestarts
    /\ enabled' = [enabled EXCEPT ![n] = n \in Stale]
    /\ count' = [count EXCEPT !.restarts = @ + 1]
    /\ UNCHANGED <<active, schedule, aslot, number, filled, clock>>

-----------------------------------------------------------------------------
Init ==
    /\ active \in Elections
    /\ schedule \in Orders(active)
    /\ aslot = 0 /\ number = 0
    /\ filled = [i \in 1 .. Window |-> 1]
    /\ clock = 0
    /\ enabled = [n \in Nodes |-> n \in Stale]
    /\ count = [elections |-> 0, restarts |-> 0]

Next ==
    \/ \E n \in Nodes : Produce(n) \/ Enable(n) \/ Restart(n)
    \/ Tick

(* Time passes.  The loop reschedules itself every second whatever its     *)
(* last round returned, so that a node which is up does not miss all of    *)
(* its slots.                                                              *)
Fairness ==
    /\ WF_vars(Tick)
    /\ \A n \in Nodes : SF_vars(Produce(n)) /\ SF_vars(Enable(n))

Spec == Init /\ [][Next]_vars /\ Fairness

-----------------------------------------------------------------------------
(* Properties *)

(* Every variable keeps the type of the field it models. *)
TypeOK ==
    /\ active \in Elections
    /\ schedule \in Seq(Witnesses)
    /\ aslot \in 0 .. Period - 1 /\ number \in 0 .. Period - 1
    /\ filled \in [1 .. Window -> {0, 1}]
    /\ clock \in - SkipSlots .. Horizon
    /\ enabled \in [Nodes -> BOOLEAN]

(* After an outage of any length, with any restarts, election results and  *)
(* shuffles, blocks are produced again: the participation of the slots     *)
(* before the outage, which only a new block can change, stops nobody.     *)
ProductionContinues == []<><<\E n \in Nodes : Produce(n)>>_vars

Scheduled(n) == \E w \in Range(schedule) : Owner[w] = n

(* A node that was restarted without enable-stale-production, and refuses  *)
(* to produce until it sees a recent block, produces again as long as its  *)
(* witnesses come up in the schedule.                                      *)
NodesRejoin == \A n \in Nodes : []<>Scheduled(n) => []<><<Produce(n)>>_vars

(* The schedule is shuffled only every so many blocks and may hold retired *)
(* witnesses, or lack new ones, after a maintenance; in the end it holds   *)
(* the elected ones.                                                       *)
ScheduleFollowsElection ==
    \A A \in Elections : <>[](active = A) => <>[](Range(schedule) = A)
=============================================================================
