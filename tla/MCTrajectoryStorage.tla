------------------------ MODULE MCTrajectoryStorage ------------------------
(***************************************************************************)
(* Every forest of up to three tracks of three points, with the addresses  *)
(* in every order, under sets of filters of each kind.                     *)
(***************************************************************************)
EXTENDS TrajectoryStorage

EventsOf(n, matched) ==
    {[parent |-> p, start |-> s, matches |-> m, order |-> o] :
        p \in {q \in [1..n -> 0..(n - 1)] : \A t \in 1..n : q[t] < t},
        s \in {q \in [1..n -> 1..2] : \A t \in 1..n : q[t] = 1 + (t % 2)},
        m \in [1..n -> SUBSET matched],
        o \in {q \in [1..n -> 1..n] : IsInjective(q)}}

MCEvents == EventsOf(1, {"own", "elossSRange"}) \union EventsOf(2, {"own", "elossSRange"})
                \union EventsOf(3, {"own", "elossSRange"})

ConfigsOf(sets, depths, logics, connects, stored, lasts) ==
    [set : sets, depth : depths, logicAND : logics, connect : connects,
     nStored : stored, andLast : lasts]

MCConfigs ==
    ConfigsOf({{"own"}, {"elossSRange"}, {"own", "elossSRange"}}, {0}, BOOLEAN, BOOLEAN,
              {0}, {FALSE})
        \union ConfigsOf({{"own", "depth"}, {"secondary"}}, {1}, BOOLEAN, BOOLEAN,
                         {0}, {FALSE})
        \union ConfigsOf({{"secondary"}}, {0}, {FALSE}, {TRUE}, {1}, BOOLEAN)

\* Small instances for what the manual says of each.
TwoTracks == EventsOf(2, {})
ThreeTracks == EventsOf(3, {})
TwoMatched == EventsOf(2, {"own", "elossSRange"})
ThreeMatched == EventsOf(3, {"own"})
AndOfTwo == ConfigsOf({{"own", "elossSRange"}}, {0}, {TRUE}, {FALSE}, {0}, {FALSE})
NotConnected == ConfigsOf({{"own"}}, {0}, {FALSE}, {FALSE}, {0}, {FALSE})
AllStored == ConfigsOf({{"secondary"}}, {0}, {FALSE}, {TRUE}, {0}, {FALSE})
=============================================================================
