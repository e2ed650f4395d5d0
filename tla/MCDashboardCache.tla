-------------------------- MODULE MCDashboardCache --------------------------
(* Two clients; a day is two units of the clock, and begins one earlier in the east. *)
EXTENDS DashboardCache, TLC

CONSTANTS biz, m, home, east

Zones == biz :> home
Offsets == home :> 0 @@ east :> 1

Static(z) == [kind |-> "static", biz |-> biz, zone |-> z, from |-> None, to |-> None,
              groupBy |-> None, sources |-> {}]
Ranged(z, f, s) == [kind |-> "range", biz |-> biz, zone |-> z, from |-> f, to |-> None,
                    groupBy |-> None, sources |-> s]

\* The range is thirty-one days long at first and one longer the next day.
Queries == {Static(None), Static(east), Ranged(None, -60, {m})}

Interchangeable == Permutations(Client)
=============================================================================
