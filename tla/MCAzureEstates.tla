--------------------------- MODULE MCAzureEstates ---------------------------
(***************************************************************************)
(* The subscriptions the TLC runs start from: one that holds two or more   *)
(* of what the handlers put together from many reads, one that holds       *)
(* nothing, and one between them.                                          *)
(***************************************************************************)
EXTENDS Naturals, Sequences

MCEmpty ==
  [scored |-> FALSE, assessed |-> 0, assignments |-> 0, evaluated |-> 0,
   storage |-> <<>>, keyVaults |-> <<>>, servers |-> <<>>, databases |-> <<>>,
   machines |-> <<>>,
   publicIPs |-> 0, groups |-> 0, vaults |-> <<>>, logged |-> {}, resources |-> 0]

(* The policy of db1's item is in the other vault's list; p3 is not in     *)
(* use, and is the shortest.  st logs only in its services' settings.      *)
MCFull ==
  [scored |-> TRUE, assessed |-> 1, assignments |-> 1, evaluated |-> 1,
   storage |-> <<"st">>, keyVaults |-> <<"kv">>,
   servers |-> <<"s1", "s2">>,
   databases |-> << [id |-> "m1", server |-> "s1", master |-> TRUE, tde |-> FALSE],
                    [id |-> "db1", server |-> "s1", master |-> FALSE, tde |-> TRUE],
                    [id |-> "db2", server |-> "s2", master |-> FALSE, tde |-> TRUE] >>,
   machines |-> <<"vm">>, publicIPs |-> 1, groups |-> 1,
   vaults |-> << [id |-> "v1",
                  items |-> {[source |-> "vm", active |-> TRUE, policy |-> "p1"]},
                  policies |-> {[id |-> "p1", days |-> 30], [id |-> "p3", days |-> 7]},
                  jobs |-> {[id |-> "j1", succeeded |-> TRUE, age |-> 5]}],
                 [id |-> "v2",
                  items |-> {[source |-> "db1", active |-> TRUE, policy |-> "p2"],
                             [source |-> "db2", active |-> FALSE, policy |-> "p1"]},
                  policies |-> {[id |-> "p2", days |-> 14]},
                  jobs |-> {[id |-> "j2", succeeded |-> FALSE, age |-> 168],
                            [id |-> "j3", succeeded |-> FALSE, age |-> 169],
                            [id |-> "j4", succeeded |-> TRUE, age |-> 40]}] >>,
   logged |-> {<<"st", "service_settings">>, <<"db1", "own_settings">>},
   resources |-> 2]

(* Policies assigned that have evaluated nothing, a server without         *)
(* databases, a machine, and a vault that protects nothing of it yet.      *)
MCBetween ==
  [MCEmpty EXCEPT !.assignments = 1, !.storage = <<"st2">>,
     !.servers = <<"s3">>,
     !.databases = << [id |-> "m3", server |-> "s3", master |-> TRUE, tde |-> FALSE] >>,
     !.machines = <<"vm2">>,
     !.vaults = << [id |-> "v3", items |-> {},
                    policies |-> {[id |-> "p4", days |-> 30]}, jobs |-> {}] >>,
     !.logged = {<<"st2", "own_settings">>, <<"vm2", "own_settings">>}]

MCConfigurations ==
  {<<MCFull>>, <<MCEmpty>>, <<MCBetween, MCEmpty>>, <<MCFull, MCBetween>>}
=============================================================================
