---------------------------- MODULE ExpertPlacement ----------------------------
(***************************************************************************)
(* Placements of the experts on the ranks, for the two readers of a trace  *)
(* (hardware/screen_measured_router_trace.py and                           *)
(* hardware/analyze_native_route_opportunity.py).  The planner knows       *)
(* contiguous ownership only, so the experts are renumbered before it      *)
(* sees their counts.                                                      *)
(***************************************************************************)
EXTENDS Integers, FiniteSets

(* A mapping of experts to ranks that _load_mapping lets through. *)
Balanced(mapping, numExperts, worldSize) ==
  /\ numExperts % worldSize = 0
  /\ mapping \in [0 .. numExperts - 1 -> 0 .. worldSize - 1]
  /\ \A rank \in 0 .. worldSize - 1 :
       Cardinality({e \in 0 .. numExperts - 1 : mapping[e] = rank}) = numExperts \div worldSize

Contiguous(numExperts, worldSize) ==
  [e \in 0 .. numExperts - 1 |-> e \div (numExperts \div worldSize)]

RoundRobin(numExperts, worldSize) == [e \in 0 .. numExperts - 1 |-> e % worldSize]

(* local_slots: the experts of the same rank before this one. *)
LocalSlot(mapping, e) == Cardinality({f \in DOMAIN mapping : f < e /\ mapping[f] = mapping[e]})

(* _planner_expert_ids and _planner_ids *)
PlannerIds(mapping, expertsPerRank) ==
  [e \in DOMAIN mapping |-> mapping[e] * expertsPerRank + LocalSlot(mapping, e)]

(* The rank to which the planner takes an expert of its own to belong. *)
PlannerRank(id, expertsPerRank) == id \div expertsPerRank
-----------------------------------------------------------------------------
(* The planner sees every expert on its own rank, and no two experts as    *)
(* one: renumbering changes neither the loads of the ranks nor those of    *)
(* the experts (screen_measured_router_trace.py:125-132).                  *)
Renumbered(mapping, expertsPerRank) ==
  LET ids == PlannerIds(mapping, expertsPerRank)
  IN  /\ \A e \in DOMAIN mapping : PlannerRank(ids[e], expertsPerRank) = mapping[e]
      /\ \A e, f \in DOMAIN mapping : ids[e] = ids[f] => e = f
===============================================================================
