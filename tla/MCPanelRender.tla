---------------------------- MODULE MCPanelRender ----------------------------
(* Three panels of the first dashboard, one of no group, and one of each other.  A
   second is four units of time and a duration has eight bits: 31 seconds are the
   longest period, 32 seconds wrap to a negative one, and 65 seconds to a period of
   one second.  One of the settings leaves the periods to their defaults. *)
EXTENDS PanelRender, TLC

MCSync     == <<"frequency panel", "offset table", "plain panel">>
MCNetwork  == <<"traffic panel">>
MCSystem   == <<"cpu panel">>
MCGroupsOf == "frequency panel" :> {"Frequency"} @@ "offset table" :> {"Offset", "Status"}
              @@ "plain panel" :> {}
MCCounts   == {0, 2}

MCSettings ==
    {[groups |-> g, alertGroups |-> {"All"}, skip |-> skip, period |-> 3, alertPeriod |-> 0,
      alertDelay |-> 2, autoInterval |-> 2, autoWindow |-> 0] :
        g \in {{}, {"Offset", "Status"}}, skip \in BOOLEAN}
    \cup {[groups |-> {"System"}, alertGroups |-> {"Offset"}, skip |-> TRUE, period |-> 0,
           alertPeriod |-> 2, alertDelay |-> 0, autoInterval |-> 2, autoWindow |-> 5]}

MCRequests ==
    {Automatic,
     Alert({}, {}, 0), Alert({"freq", "system"}, {"all"}, 1), Alert({"freq", Unknown}, {}, 0),
     Alert({Blank}, {"network"}, 0), Alert({Blank}, {}, -1), Alert({Comma}, {"all"}, 0),
     Post(Empty, Empty),
     Post([Empty EXCEPT !.groups = {"path_delay"}], [Empty EXCEPT !.groups = {"all"}]),
     Post([Empty EXCEPT !.groups = {Blank}], [Empty EXCEPT !.skip = "no"]),
     Post([Empty EXCEPT !.skip = "yes"], [Empty EXCEPT !.groups = {"status", "network", Blank}]),
     Post([Empty EXCEPT !.skip = "no"], [Empty EXCEPT !.groups = {"status", "freq", "network"}]),
     Post(Empty, [Empty EXCEPT !.groups = {Unknown}]),
     Post(Empty, [Empty EXCEPT !.groups = {Comma}]),
     Post([Empty EXCEPT !.from = 5], [Empty EXCEPT !.to = 5]),
     Post([Empty EXCEPT !.to = 9, !.period = 1], [Empty EXCEPT !.seconds = 31]),
     Post([Empty EXCEPT !.seconds = -1], [Empty EXCEPT !.seconds = 2, !.period = 6]),
     Post([Empty EXCEPT !.seconds = 32], Empty),
     Post([Empty EXCEPT !.seconds = 65, !.skip = "yes"], Empty)}
=============================================================================
