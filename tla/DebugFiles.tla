----------------------------- MODULE DebugFiles -----------------------------
(***************************************************************************)
(* What an uploaded debug file becomes: convert_upload (api/dsyms.rs) for  *)
(* the legacy route, process_assembled and assemble_dart_symbol_map        *)
(* (api/chunked_upload.rs) for assembled files, cache_bytes                *)
(* (ingest/cfi.rs).                                                        *)
(*                                                                         *)
(* An object is what the debug-info parser sees of it: its identifier (a   *)
(* GUID and an age), its architecture, whether it parses and converts, the *)
(* quality and digest of its symbol cache, and those of its unwind tables. *)
(***************************************************************************)
EXTENDS Subsequences, SequencesExt

NoHint == <<"none", 0>>
NoArtifact == [kind |-> "none"]
NoTables == 0     \* the digest of unwind tables that do not exist

Rejected == [outcome |-> "rejected", object |-> NoArtifact, cfi |-> NoArtifact]
Skipped == [outcome |-> "skipped", object |-> NoArtifact, cfi |-> NoArtifact]

\* Only the age is taken from the request, and only for the same GUID: a PDB is
\* looked up by the age its image carries.
EffectiveDebugId(object, hint) ==
  IF hint # NoHint /\ hint[1] = object.id[1] THEN hint ELSE object.id

NativeArtifact(o, id) ==
  [debug |-> id, kind |-> "native", arch |-> o.arch, quality |-> o.quality, hash |-> o.hash]

SourceBundle(o, id) ==
  [debug |-> id, kind |-> "source_bundle", arch |-> o.arch, quality |-> 0, hash |-> o.hash]

\* Unwind tables are a payload of their own; an object without records has none.
CfiArtifact(o, id) ==
  IF o.tables = NoTables THEN NoArtifact
  ELSE [debug |-> id, kind |-> "cfi", arch |-> o.arch, quality |-> 0, hash |-> o.tables]

Native(o, id) ==
  [outcome |-> "ok", object |-> NativeArtifact(o, id), cfi |-> CfiArtifact(o, id)]

\* An object without an identifier is no use to any event.
ConvertObject(o) ==
  CASE o.parses /\ o.anonymous -> Skipped
    [] o.parses /\ ~o.anonymous /\ o.converts -> Native(o, o.id)
    [] OTHER -> Rejected

ConvertObjects(objects) ==
  LET items == [i \in DOMAIN objects |-> ConvertObject(objects[i])]
  IN  Picked(items, {i \in DOMAIN items : items[i].outcome # "skipped"})

\* An entry of an archive: a directory is passed over, and so is a file that
\* holds no objects; one that is too large or unreadable is reported.
ConvertEntry(e) ==
  CASE e.is = "unreadable" \/ e.is = "oversized" -> <<Rejected>>
    [] e.is = "directory" -> <<>>
    [] OTHER -> ConvertObjects(e.objects)

\* convert_upload
ConvertFile(f) ==
  CASE f.is = "oversized" \/ f.is = "garbled" -> <<Rejected>>
    [] f.is = "zip" -> FlattenSeq([i \in DOMAIN f.entries |-> ConvertEntry(f.entries[i])])
    [] OTHER -> ConvertObjects(f.objects)

\* object_to_processed
ProcessObject(o, hint) ==
  LET id == EffectiveDebugId(o, hint) IN
  CASE o.parses /\ ~o.anonymous /\ o.sources ->
         [outcome |-> "ok", object |-> SourceBundle(o, id), cfi |-> NoArtifact]
    [] o.parses /\ ~o.anonymous /\ ~o.sources /\ o.converts -> Native(o, id)
    [] OTHER -> Skipped

ProcessObjects(objects, hint) ==
  LET items == [i \in DOMAIN objects |-> ProcessObject(objects[i], hint)]
  IN  Picked(items, {i \in DOMAIN items : items[i].outcome = "ok"})

\* A symbol map is stored under the identifier the request names, whatever its
\* names map to; it must be an array of pairs.
DartMapItems(f, hint) ==
  IF hint = NoHint \/ f.elements % 2 # 0 THEN <<>>
  ELSE << [outcome |-> "ok", cfi |-> NoArtifact,
           object |-> [debug |-> hint, kind |-> "dart_symbol_map", arch |-> "any",
                       quality |-> 0, hash |-> f.hash]] >>

\* assemble_one: an empty result is an error of the assembly.
AssembledItems(f, hint) ==
  CASE f.is = "map" -> DartMapItems(f, hint)
    [] f.is = "objects" -> ProcessObjects(f.objects, hint)
    [] OTHER -> <<>>

\* The object the answer describes: the requested one, else the first.
Primary(items, hint) ==
  LET asked == {i \in DOMAIN items : hint # NoHint /\ items[i].object.debug = hint}
  IN  IF asked = {} THEN 1 ELSE CHOOSE i \in asked : \A j \in asked : i <= j
=============================================================================
