-------------------------- MODULE MCModuleManager --------------------------
(* Three names, two libraries, one of which provides the message bus       *)
(* service, and the files of up to two entries that name them; and files   *)
(* that each differ from one of these in one place.                        *)
EXTENDS ModuleManager, TLC

CONSTANTS bus1, bus2, app

Buses == {Word(bus1), Word(bus2)}
MCModules == Buses \cup {Word(app)}

Plugins == <<"", "plugins">>
BusLibrary == Plugins \o <<"bus.so">>
AppLibrary == Plugins \o <<"app.so">>
MCTypeOf == BusLibrary :> Word("bus") @@ AppLibrary :> Word("app")
MCProviders == {BusLibrary}

(* The library of a bus is given relative to the file. *)
Entry(m) ==
  IF m \in Buses
  THEN [name |-> String(m), type |-> String(Word("bus")),
        library_path |-> String(Word("bus.so")), config |-> Object([own |-> String(m)])]
  ELSE [name |-> String(m), type |-> String(Word("app")),
        library_path |-> String(AppLibrary)]

File(entries) ==
  [directory |-> Plugins,
   root |-> Object([schema_version |-> Num(2), modules |-> Array(entries)])]

Objects(entries) == [i \in DOMAIN entries |-> Object(entries[i])]

(* No entry, each one, and each pair. *)
Known == <<Entry(Word(bus1)), Entry(Word(bus2)), Entry(Word(app))>>
Batches ==
  << <<>> >> \o [i \in 1 .. 3 |-> <<Known[i]>>]
  \o [i \in 1 .. 9 |-> <<Known[(i + 2) \div 3], Known[(i % 3) + 1]>>]
Other(f, key, value) == (key :> value) @@ f
Without(f, key) == [k \in DOMAIN f \ {key} |-> f[k]]

(* An entry in forms that are not in order, or that no plugin answers to. *)
Variants(e) ==
  <<Other(e, "name", String(Empty)), Other(e, "name", Num(1)), Without(e, "name"),
    Without(e, "type"), Other(e, "type", String(Empty)),
    Other(e, "type", String(Word("other"))), Without(e, "library_path"),
    Other(e, "library_path", Bool(TRUE)),
    Other(e, "library_path", String(Word("none.so"))),
    Other(e, "config", Array(<<>>)), Other(e, "name", String(Word(app)))>>

Second(variants) ==
  [i \in DOMAIN variants |-> File(Objects(<<Entry(Word(app)), variants[i]>>))]

Roots ==
  <<String(Empty), Object([modules |-> Array(<<>>)]), Object([schema_version |-> Num(2)]),
    Object([schema_version |-> Num(2), modules |-> Object(NoFields)]),
    Object([schema_version |-> String(Word("2")), modules |-> Array(<<>>)]),
    Object([schema_version |-> Num(1), modules |-> Array(<<Object(Entry(Word(app)))>>)]),
    Object([schema_version |-> Num(2), modules |-> Array(<<Num(1)>>)])>>

MCFiles ==
  [i \in DOMAIN Batches |-> File(Objects(Batches[i]))]
  \o Second(Variants(Entry(Word(bus1)))) \o Second(Variants(Entry(Word(bus2))))
  \o [i \in DOMAIN Roots |-> [directory |-> Plugins, root |-> Roots[i]]]
=============================================================================
