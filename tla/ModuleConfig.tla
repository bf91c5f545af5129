---------------------------- MODULE ModuleConfig ----------------------------
(***************************************************************************)
(* ReadModuleConfig: from a configuration file of the framework to the     *)
(* modules it names, each with its type, its library and its own           *)
(* configuration. A file is a record of the JSON it holds and of the       *)
(* directory it is in; a result is a set, as in JsonValues.                *)
(***************************************************************************)
EXTENDS JsonValues

kConfigSchemaVersion == 2

(* Paths begin with a slash, or are relative to a directory.               *)
IsAbsolute(path) == Len(path) > 1 /\ path[1] = ""
Join(directory, path) == directory \o path

AbsolutePath(directory, path) ==
  IF IsAbsolute(path) THEN path ELSE Join(directory, path)

ParseModuleConfigEntry(x, config_directory) ==
  {[name |-> n, type |-> t, config |-> c,
    library_path |-> AbsolutePath(config_directory, l)] :
     n \in RequiredString(x, "name"), t \in RequiredString(x, "type"),
     l \in RequiredString(x, "library_path"),
     c \in Optional(x, "config", "object", NoFields)}

(* Mutant of ParseEntries: a name may come twice, from two libraries.       *)
ParsePairs(items, config_directory) ==
  ParseUniqueArray(items, LAMBDA x : ParseModuleConfigEntry(x, config_directory),
                   LAMBDA spec : <<spec.name, spec.library_path>>)

ParseEntries(items, config_directory) ==
  ParseUniqueArray(items, LAMBDA x : ParseModuleConfigEntry(x, config_directory),
                   LAMBDA spec : spec.name)

ReadModuleConfig(file) ==
  IF kConfigSchemaVersion \in Required(file.root, "schema_version", "int")
  THEN UNION {ParseEntries(items, file.directory) :
                items \in Required(file.root, "modules", "array")}
  ELSE {}
=============================================================================
