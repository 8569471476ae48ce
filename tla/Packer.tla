------------------------------- MODULE Packer -------------------------------
(***************************************************************************)
(* Packing a script and unpacking it again (packer.py, domain/packing.py). *)
(*                                                                         *)
(* A file is [name, init]: the module a dotted name stands for, as         *)
(* name.py, or name/__init__.py when init.  Its body is the set of its     *)
(* import statements [level, module, names].  Names are sequences.  Others *)
(* edit the tree while it is walked.  A body that does not parse has the   *)
(* statement that imports nothing from nowhere, which is none of Python's. *)
(***************************************************************************)
EXTENDS Naturals, Sequences, FiniteSets, FiniteSetsExt, SequencesExt

CONSTANTS Trees,        \* the trees there are to pack: file -> body
          Edits,        \* bodies somebody writes into a file meanwhile
          Stdlib,       \* top-level names of the standard library
          Entry,        \* the entry script, a file of every tree
          MaxEdits      \* bound: edits of the tree

\* Files by their dotted names (__init__.py of the root has none), and what is
\* in them.
PyFiles  == {f \in [name : Seq(STRING), init : BOOLEAN] : f.init \/ f.name # <<>>}
PyBodies == SUBSET [level : Nat, module : Seq(STRING), names : SUBSET STRING]

\* What the constants must be; assumed where they get their values.
PackerAssumption ==
    /\ MaxEdits \in Nat
    /\ \A tree \in Trees :
         /\ Entry \in DOMAIN tree /\ DOMAIN tree \subseteq PyFiles
         /\ \A f \in DOMAIN tree : tree[f] \in PyBodies
    /\ Edits \subseteq PyBodies

VARIABLES
    pc,
    disk,               \* the tree under the pack root
    outside,            \* files that are links to somewhere outside it
    include,            \* PackOptions.include
    refused,            \* what else stops this pack: a bad block, a reserved name
    pending, found,     \* _collect_sources: files to read, bodies read
    searched,           \* ghost: the files that were searched for imports
    external,           \* top-level names nobody packs
    dest, force,        \* the runner file: absent, old, source, new; PackOptions.force
    written, target,    \* unpack_script: members written, files of the target
    edits,
    steady,             \* ghost: files nobody touched since the pack began
    result              \* none, ok, error

world == <<outside, include, refused>>
vars == <<pc, disk, world, pending, found, searched, external, dest, force, written, target, edits, steady, result>>

File(name, init) == [name |-> name, init |-> init]

Files == UNION {DOMAIN tree : tree \in Trees}

-----------------------------------------------------------------------------
(* domain/packing.py *)

\* _with_parents: a, a.b and a.b.c for a.b.c.
with_parents(dotted) == Prefixes(dotted) \ {<<>>}

\* _resolve_from_base: a relative import climbs from the module's package;
\* "none" when it climbs too far.
resolve_from_base(import, package) ==
    IF import.level = 0 THEN import.module
    ELSE SubSeq(package, 1, Len(package) - (import.level - 1)) \o import.module

ClimbsTooFar(import, package) == import.level > Len(package) + 1

\* The names of a from-import are not taken for modules.
node_candidates_base_only(import, package) ==
    IF ClimbsTooFar(import, package) THEN {}
    ELSE with_parents(resolve_from_base(import, package))

\* _node_candidates: every name an import statement may load, the parents of
\* a dotted name first.
node_candidates(import, package) ==
    IF ClimbsTooFar(import, package) THEN {}
    ELSE LET base == resolve_from_base(import, package)
         IN with_parents(base) \cup {Append(base, n) : n \in import.names}

NoStatement == [level |-> 0, module |-> <<>>, names |-> {}]

\* ast.parse takes the body.
IsPython(body) == NoStatement \notin body

iter_import_candidates(body, package) == UNION {node_candidates(i, package) : i \in body}

\* candidate_relative_paths, in the order _resolve_local tries them.
resolve_local(dotted, tree) ==
    LET module == File(dotted, FALSE)
        init == File(dotted, TRUE)
    IN IF module \in DOMAIN tree THEN {module} ELSE {init} \cap DOMAIN tree

classify_import(dotted, tree) ==
    IF resolve_local(dotted, tree) # {} THEN "local"
    ELSE IF Head(dotted) \in Stdlib THEN "stdlib" ELSE "external"

package_parts(file) == IF file.init THEN file.name ELSE Front(file.name)

-----------------------------------------------------------------------------
(* pack_script *)

Init ==
    /\ pc = "idle" /\ disk \in Trees
    /\ \/ outside = {} /\ include = {} /\ refused \in BOOLEAN
       \/ \E f \in Files \ {Entry} : outside = {f} /\ include = {} /\ refused = FALSE
       \/ \E f \in Files \ {Entry} : outside = {} /\ include = {f} /\ refused = FALSE
    /\ pending = {} /\ found = << >> /\ searched = {} /\ external = {}
    /\ dest \in {"absent", "old", "source"} /\ force \in BOOLEAN
    /\ written = {} /\ target = {}
    /\ edits = 0 /\ steady = Files /\ result = "none"

unpack == <<written, target>>

Pack ==
    /\ pc = "idle" /\ pc' = "walk" /\ pending' = {Entry} /\ steady' = Files
    /\ UNCHANGED <<disk, world, found, searched, external, dest, force, unpack, edits, result>>

Fail ==
    /\ pc' = "done" /\ result' = "error"

\* One file is read, once: what is archived is what was searched for imports.
\* One that is gone, or is not valid Python, ends the pack.
Visit(file) ==
    /\ pc = "walk" /\ file \in pending
    /\ IF file \notin DOMAIN disk \/ ~IsPython(disk[file])
       THEN Fail /\ UNCHANGED <<pending, found, searched, external>>
       ELSE LET names == iter_import_candidates(disk[file], package_parts(file))
                local == UNION {resolve_local(n, disk) : n \in names}
            IN /\ found' = [f \in DOMAIN found \cup {file} |-> IF f = file THEN disk[f] ELSE found[f]]
               /\ searched' = searched \cup {file}
               /\ external' = external \cup {Head(n) : n \in {m \in names : classify_import(m, disk) = "external"}}
               /\ pending' = (pending \cup local) \ DOMAIN found'
               /\ UNCHANGED <<pc, result>>
    /\ UNCHANGED <<disk, world, dest, force, unpack, edits, steady>>

\* The end of _collect_sources: included files are read, not searched; links
\* that leave the root are refused; names that have a file by now are not
\* external.
Collected ==
    /\ pc = "walk" /\ pending = {}
    /\ found' = [f \in DOMAIN found \cup (include \cap DOMAIN disk) |->
                    IF f \in DOMAIN found THEN found[f] ELSE disk[f]]
    /\ IF ~(include \subseteq DOMAIN disk) \/ DOMAIN found' \cap outside # {}
       THEN Fail /\ UNCHANGED external
       ELSE /\ pc' = "guard" /\ UNCHANGED result
            /\ external' = {n \in external : resolve_local(<<n>>, disk) = {}}
    /\ UNCHANGED <<disk, world, pending, searched, dest, force, unpack, edits, steady>>

\* _guard_destination, then every refusal of the metadata, the reserved name
\* and the renderer: all before the write.
Guard ==
    /\ pc = "guard"
    /\ IF dest = "source" \/ (dest = "old" /\ ~force) \/ refused THEN Fail
       ELSE pc' = "write" /\ UNCHANGED result
    /\ UNCHANGED <<disk, world, pending, found, searched, external, dest, force, unpack, edits, steady>>

WriteRunner ==
    /\ pc = "write"
    /\ \/ dest' = "new" /\ pc' = "packed" /\ result' = "ok"
       \/ Fail /\ UNCHANGED dest
    /\ UNCHANGED <<disk, world, pending, found, searched, external, force, unpack, edits, steady>>

Edit(file, body) ==
    /\ pc = "walk" /\ edits < MaxEdits /\ file # Entry
    /\ edits' = edits + 1 /\ steady' = steady \ {file}
    /\ disk' = IF file \in DOMAIN disk THEN [f \in DOMAIN disk \ {file} |-> disk[f]]
               ELSE [f \in DOMAIN disk \cup {file} |-> IF f = file THEN body ELSE disk[f]]
    /\ UNCHANGED <<pc, world, pending, found, searched, external, dest, force, unpack, result>>

-----------------------------------------------------------------------------
(* unpack_script of the runner that was written, into a directory that may *)
(* hold some of its files already.                                         *)

Unpack ==
    /\ pc = "packed" /\ pc' = "unpack" /\ result' = "none"
    /\ \E held \in SUBSET DOMAIN found : Cardinality(held) < 2 /\ target' = held
    /\ force' \in BOOLEAN
    /\ UNCHANGED <<disk, world, pending, found, searched, external, dest, written, edits, steady>>

\* _write_member, the shim left out; members come in the order of their names.
WriteMember ==
    /\ pc = "unpack" /\ written # DOMAIN found
    /\ LET file == CHOOSE f \in DOMAIN found \ written : TRUE IN
        \/ /\ file \notin target \/ force
           /\ written' = written \cup {file} /\ UNCHANGED <<pc, result>>
        \/ Fail /\ UNCHANGED written
    /\ UNCHANGED <<disk, world, pending, found, searched, external, dest, force, target, edits, steady>>

Unpacked ==
    /\ pc = "unpack" /\ written = DOMAIN found
    /\ pc' = "done" /\ result' = "ok"
    /\ UNCHANGED <<disk, world, pending, found, searched, external, dest, force, unpack, edits, steady>>

\* The next pack of the tree as it is now.
Forget ==
    /\ pc \in {"packed", "done"} /\ pc' = "idle"
    /\ pending' = {} /\ found' = << >> /\ searched' = {} /\ external' = {} /\ dest' = "absent"
    /\ written' = {} /\ target' = {} /\ steady' = Files /\ result' = "none"
    /\ UNCHANGED <<disk, world, force, edits>>

Next ==
    \/ Pack \/ Collected \/ Guard \/ WriteRunner \/ Unpack \/ WriteMember \/ Unpacked \/ Forget
    \/ \E f \in Files : Visit(f)
    \/ \E f \in Files, b \in Edits : Edit(f, b)

Spec == Init /\ [][Next]_vars

-----------------------------------------------------------------------------

TypeOK ==
    /\ DOMAIN disk \subseteq Files /\ pending \subseteq Files /\ DOMAIN found \subseteq Files
    /\ outside \cup include \cup searched \subseteq Files
    /\ dest \in {"absent", "old", "source", "new"} /\ result \in {"none", "ok", "error"}
    /\ written \subseteq DOMAIN found /\ edits \in 0..MaxEdits

\* Reference: the file Python itself takes for a name; a package comes before
\* a module of the same name.
Loads(name, tree) ==
    LET init == File(name, TRUE)
    IN IF init \in DOMAIN tree THEN {init} ELSE {File(name, FALSE)} \cap DOMAIN tree

\* What Python loads for an import: every parent on the way, and what is
\* taken from it when that is a module.
PythonLoads(file, body, tree) ==
    LET base(i) == resolve_from_base(i, package_parts(file))
        names(i) == {SubSeq(base(i), 1, n) : n \in 1..Len(base(i))} \cup {Append(base(i), n) : n \in i.names}
    IN UNION {UNION {Loads(n, tree) : n \in names(i)} :
                i \in {j \in body : ~ClimbsTooFar(j, package_parts(file))}}

\* The names whose file was neither made nor removed while the pack ran.
Steady(name) == {File(name, FALSE), File(name, TRUE)} \cap Files \subseteq steady

\* The entry and every local module it imports, transitively, including
\* relative imports, are embedded; each as it was when it was searched.
EmbedsWhatPythonLoads ==
    pc = "packed" =>
        /\ Entry \in DOMAIN found
        /\ \A f \in searched :
            {g \in PythonLoads(f, found[f], disk) : Steady(g.name)} \subseteq DOMAIN found

\* A name an embedded body imports and that is not the standard library's is
\* embedded or reported as external, never neither.
NothingIsUnaccounted ==
    pc = "packed" =>
        \A f \in searched : \A n \in iter_import_candidates(found[f], package_parts(f)) :
            Steady(<<Head(n)>>) /\ Head(n) \notin Stdlib =>
                \/ Head(n) \in external
                \/ \E g \in DOMAIN found : g.name = <<Head(n)>>
-----------------------------------------------------------------------------
(* The inductive invariant behind the two.                                 *)

\* No module of the tree has the name of a package of it.
NoTwins == \A f \in Files : f.init => File(f.name, FALSE) \notin Files

DiskInv == DOMAIN disk \subseteq Files /\ \A f \in DOMAIN disk : disk[f] \in PyBodies

WalkInv ==
    /\ searched \subseteq DOMAIN found \cap Files /\ pending \cap DOMAIN found = {}
    /\ \A f \in searched : found[f] \in PyBodies
    /\ pc = "idle" => DOMAIN found = {}
    /\ pc = "walk" => Entry \in pending \cup DOMAIN found
    /\ pc \in {"guard", "write", "packed"} => pending = {} /\ Entry \in DOMAIN found

\* A steady name that a searched file imports: what it is resolved to is
\* embedded or will be visited, and a top-level one that is resolved to
\* nothing is reported, unless it is the standard library's.
NamesInv ==
    pc \in {"walk", "guard", "write", "packed"} =>
        \A f \in searched : \A n \in iter_import_candidates(found[f], package_parts(f)) :
            Steady(n) =>
                /\ resolve_local(n, disk) \subseteq pending \cup DOMAIN found
                /\ n = <<Head(n)>> /\ resolve_local(n, disk) = {} =>
                     Head(n) \in Stdlib \cup external

PackInv == DiskInv /\ WalkInv /\ NamesInv
=============================================================================
