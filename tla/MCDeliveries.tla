---------------------------- MODULE MCDeliveries ----------------------------
(* TLC instances of ResultDelivery. *)
EXTENDS ResultDelivery

CONSTANT Turns   \* a second result takes two, a replay or a fault one

\* Each router takes each event once, in order.
OnceInOrder ==
  \A r \in Routers : (router[r].pc = "idle" /\ router'[r].pc = "route")
                        => router'[r].log > router[r].log

\* Routers are alike, and so are workers: one starts when those before it have.
LowestFirst ==
  /\ \A r, s \in Routers : s < r /\ router'[r].log > 0 => router'[s].log > 0
  /\ \A v, w \in Workers :
       v < w /\ worker[w].pc = "idle" /\ worker'[w].pc # "idle" => worker[v].pc # "idle"

\* With two results, sends land or are retried, and a target is allowed or not.
SimpleOutcomes ==
  /\ \A w \in Workers : worker'[w].outcome \notin {"misconfigured", "refused"}
  /\ \A r \in Routers : router'[r].how # "failed"

BoundedDeliveryNext ==
  /\ DeliveryNext
  /\ OnceInOrder /\ LowestFirst
  /\ revision' > 1 => SimpleOutcomes
  /\ replays'.made + faults' > 1 => Cardinality({r \in Routers : router'[r].log > 0}) = 1
  /\ 2 * revision' + replays'.made + faults' <= Turns

FairDeliverySpec ==
  DeliveryInit /\ [][BoundedDeliveryNext]_deliveryVars /\ DeliveryFairness
=============================================================================
