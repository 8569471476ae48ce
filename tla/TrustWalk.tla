----------------------------- MODULE TrustWalk ------------------------------
(***************************************************************************)
(* The judgement a root run of a packed runner makes before it runs a      *)
(* program (pwshpy_uv_distrust) or uses a directory of interpreters        *)
(* (pwshpy_python_dir_distrust): does root alone decide what the path      *)
(* leads to?                                                               *)
(*                                                                         *)
(* The shell walks the path textually, component by component, resolving   *)
(* each symlink where it meets it.  The walk is checked against the        *)
(* kernel's own resolution of the same path, over a file system that does  *)
(* not change meanwhile: what other accounts do between the judgement and  *)
(* the use is outside this module.                                         *)
(***************************************************************************)
EXTENDS Naturals, Sequences, FiniteSets, SequencesExt

CONSTANTS
    Dirs, Files, Links,     \* the nodes of the file system
    Root,                   \* "/"
    LockFiles,              \* the files that are named .lock
    Names,                  \* of directory entries
    Layouts,                \* the file systems: entries and link targets
    Paths,                  \* what is asked about: absolute paths
    MaxHops,                \* symlinks a path may pass (40 in the code)
    MaxTarget,              \* bound: components of a link's target
    MaxOdd                  \* bound: nodes that are not plainly root's

Nodes   == Dirs \cup Files \cup Links
NoEntry == "nothing"
Walking == "under way"      \* of a resolution that has not ended
Dot     == "."
DotDot  == ".."
Components == Names \cup {Dot, DotDot}

ASSUME WalkAssumption ==
    /\ Root \in Dirs /\ LockFiles \subseteq Files
    /\ Dirs \cap Files = {} /\ Dirs \cap Links = {} /\ Files \cap Links = {}
    /\ {NoEntry, Walking} \cap Nodes = {} /\ {Dot, DotDot} \cap Names = {}
    /\ MaxHops \in Nat /\ MaxTarget \in Nat /\ MaxOdd \in Nat
    /\ Paths \subseteq Seq(Components) \ {<<>>}
    /\ \A l \in Layouts :
         /\ l.entry \in [Dirs -> [Names -> Nodes \cup {NoEntry}]]
         /\ \A k \in Links :
              /\ l.target[k].comps \in Seq(Components) /\ l.target[k].abs \in BOOLEAN
              /\ Len(l.target[k].comps) <= MaxTarget

VARIABLES
    fs,         \* the entries of each directory; of each link whether its target
                \* is absolute, and the target's components
    attr,       \* who may change a node, see Attributes
    path,       \* what is asked about
    use,        \* "program" or "directory"
    at,         \* where the judgement is
    subject,    \* _pd_dir: the path, or the part of it that exists
    cur,        \* _w_cur, the directories resolved so far
    next,       \* _w_next
    rest,       \* _w_rest
    hops,       \* _w_hops
    suspect     \* _w_ancestor is not empty

scene    == <<fs, attr, path, use>>
walkVars == <<subject, cur, next, rest, hops, suspect>>
vars == <<scene, at, walkVars>>

\* "own":     root owns it, nobody else may write it, no ACL
\* "sticky":  root's, writable by others, with the sticky bit (directories)
\* "open":    root's, writable by others
\* "acl":     root's, with an ACL
\* "foreign": owned by another account
\* The mode of a link means nothing.
Attributes(n) ==
    CASE n \in Dirs  -> {"own", "sticky", "open", "acl", "foreign"}
      [] n \in Files -> {"own", "open", "acl", "foreign"}
      [] n \in Links -> {"own", "foreign"}

Verdicts == {"accepted", "refused"}

Placed(l) == Nodes \cap ({Root} \cup {l.entry[d][x] : d \in Dirs, x \in Names})

\* At most MaxOdd of the nodes in place are anything but root's own.
Init ==
    /\ fs \in Layouts
    /\ \E odd \in {s \in SUBSET Placed(fs) : Cardinality(s) <= MaxOdd} :
         \E a \in [odd -> {"own", "sticky", "open", "acl", "foreign"}] :
           /\ \A n \in odd : a[n] \in Attributes(n) \ {"own"}
           /\ attr = [n \in Nodes |-> IF n \in odd THEN a[n] ELSE "own"]
    /\ path \in Paths
    /\ use \in {"program", "directory"}
    /\ at = "begin" /\ subject = path
    /\ cur = <<>> /\ next = <<>> /\ rest = <<>> /\ hops = 0
    /\ suspect = FALSE

-----------------------------------------------------------------------------
(* The kernel's path resolution (external).  Under way it is in the last   *)
(* directory of a stack, with components to go and links left to follow;   *)
(* seen are the nodes it looked up.  It ends at a node, or at NoEntry.     *)
Configs ==
    [stack : Seq(Dirs) \ {<<>>}, comps : Seq(Components), fuel : Nat,
     seen : SUBSET Nodes, node : Nodes \cup {NoEntry, Walking}]

Start(p) ==
    [stack |-> <<Root>>, comps |-> p, fuel |-> MaxHops, seen |-> {Root}, node |-> Walking]

Lookup(f, d, c) == IF c \in Names THEN f.entry[d][c] ELSE NoEntry

\* n is what the next component c names.
Resolved(f, k, c, n) ==
    LET after == Tail(k.comps)
    IN  CASE c = Dot -> [k EXCEPT !.comps = after]
          [] c = DotDot ->
               [k EXCEPT !.comps = after, !.stack = IF Len(@) > 1 THEN Front(@) ELSE @]
          [] n \in Dirs ->
               [k EXCEPT !.comps = after, !.stack = Append(@, n), !.seen = @ \cup {n}]
          [] n \in Links /\ k.fuel > 0 ->
               [k EXCEPT !.comps = f.target[n].comps \o after,
                         !.stack = IF f.target[n].abs THEN <<Root>> ELSE @,
                         !.fuel = @ - 1, !.seen = @ \cup {n}]
          [] n \in Files /\ after = <<>> ->
               [k EXCEPT !.comps = after, !.node = n, !.seen = @ \cup {n}]
          [] OTHER -> [k EXCEPT !.comps = after, !.node = NoEntry]

\* One component; nothing more once it has ended.
ResolveOne(f) ==
    [k \in Configs |->
        IF k.node # Walking THEN k
        ELSE IF k.comps = <<>> THEN [k EXCEPT !.node = Last(k.stack)]
        ELSE Resolved(f, k, Head(k.comps), Lookup(f, Last(k.stack), Head(k.comps)))]

\* Every component that a link can still add, and one round to see the end.
Rounds(k) == Len(k.comps) + k.fuel * MaxTarget + 1

Resolve(f, k) ==
    LET run[i \in Nat] == IF i = 0 THEN k ELSE ResolveOne(f)[run[i - 1]]
    IN  run[Rounds(k)]

Route(f, p) == Resolve(f, Start(p))

Stat(f, p) == Route(f, p).node

\* Without following the last component, as ls -ld, test -L and readlink do.
Lstat(f, p) ==
    IF p = <<>> THEN Root
    ELSE IF Last(p) \notin Names THEN Stat(f, p)
    ELSE LET d == Stat(f, Front(p)) IN IF d \in Dirs THEN Lookup(f, d, Last(p)) ELSE NoEntry

-----------------------------------------------------------------------------
(* pwshpy_leaf_distrust, pwshpy_ancestor_distrust                          *)

\* ls lists a link as writable by everyone, so one that ends a path fails.
LeafDistrust(n) == n \notin Dirs \cup Files \/ attr[n] # "own"

\* The owner of an ancestor is not looked at.
AncestorDistrustModeOnly(n) == n \notin Dirs \cup Files \/ attr[n] \in {"open", "acl"}

AncestorDistrust(n) == n \notin Dirs \cup Files \/ attr[n] \in {"open", "acl", "foreign"}

\* The owner of a link is all that is judged.
LinkDistrust(n) == n \notin Links \/ attr[n] = "foreign"

-----------------------------------------------------------------------------
(* pwshpy_uv_distrust                                                      *)

\* _w_ancestor=$(pwshpy_ancestor_distrust /)
StartWalk ==
    /\ rest' = subject /\ cur' = <<>> /\ next' = <<>> /\ hops' = 0
    /\ suspect' = AncestorDistrust(Root)
    /\ at' = "component"

\* pwshpy_uv_acceptable: only a regular file is judged at all.
Begin ==
    /\ at = "begin" /\ use = "program"
    /\ IF Stat(fs, path) \in Files
         THEN StartWalk /\ UNCHANGED subject
         ELSE at' = "refused" /\ UNCHANGED walkVars
    /\ UNCHANGED scene

\* One round of the loop up to test -L.
Component ==
    /\ at = "component" /\ rest # <<>>
    /\ rest' = Tail(rest)
    /\ LET c    == Head(rest)
           step == Append(cur, c)
       IN  CASE c = Dot -> UNCHANGED <<at, cur, next>>
             [] c = DotDot ->
                  /\ cur' = IF cur = <<>> THEN cur ELSE Front(cur)
                  /\ UNCHANGED <<at, next>>
             [] OTHER ->
                  /\ next' = step
                  /\ IF Lstat(fs, step) \in Links THEN at' = "link" /\ UNCHANGED cur
                     ELSE IF Tail(rest) = <<>> THEN at' = "holder" /\ UNCHANGED cur
                     ELSE /\ cur' = step
                          /\ at' = IF suspect THEN "component" ELSE "ancestor"
    /\ UNCHANGED <<scene, subject, hops, suspect>>

JudgeAncestor ==
    /\ at = "ancestor"
    /\ suspect' = AncestorDistrust(Lstat(fs, cur))
    /\ at' = "component"
    /\ UNCHANGED <<scene, subject, cur, next, rest, hops>>

JudgeLink ==
    /\ at = "link"
    /\ hops' = hops + 1
    /\ at' = IF hops' > MaxHops \/ LinkDistrust(Lstat(fs, next)) THEN "refused"
             ELSE "readlink"
    /\ UNCHANGED <<scene, subject, cur, next, rest, suspect>>

\* An absolute target is resolved from where the link lies.
ReadLinkFromHere ==
    /\ at = "readlink"
    /\ rest' = fs.target[Lstat(fs, next)].comps \o rest
    /\ at' = "component"
    /\ UNCHANGED <<scene, subject, cur, next, hops, suspect>>

ReadLink ==
    /\ at = "readlink"
    /\ LET t == fs.target[Lstat(fs, next)]
       IN  /\ rest' = t.comps \o rest
           /\ cur' = IF t.abs THEN <<>> ELSE cur
    /\ at' = "component"
    /\ UNCHANGED <<scene, subject, next, hops, suspect>>

\* The path ended in a directory: "dir/." names the directory itself.
ComponentsEnd ==
    /\ at = "component" /\ rest = <<>>
    /\ at' = "holder"
    /\ UNCHANGED <<scene, walkVars>>

\* The directory that holds the program, then the ancestors.
JudgeHolder ==
    /\ at = "holder"
    /\ at' = IF LeafDistrust(Lstat(fs, cur)) \/ suspect THEN "refused" ELSE "leaf"
    /\ UNCHANGED <<scene, walkVars>>

\* The last test, on the last name the walk came to ("" cannot be inspected);
\* a directory that exists goes on to what is below it.
JudgeLeaf ==
    /\ at = "leaf"
    /\ at' = IF next = <<>> \/ LeafDistrust(Lstat(fs, next)) THEN "refused"
             ELSE IF use = "directory" /\ subject = path THEN "tree"
             ELSE "accepted"
    /\ UNCHANGED <<scene, walkVars>>

-----------------------------------------------------------------------------
(* pwshpy_python_dir_distrust, pwshpy_python_tree_distrust                 *)

\* test ! -e && test ! -L
Missing(p) == Stat(fs, p) = NoEntry /\ Lstat(fs, p) = NoEntry

\* The path stripped to nothing is not put back to "/".
ClimbPastRoot ==
    /\ at = "begin" /\ use = "directory"
    /\ IF Missing(subject) \/ subject = <<>>
         THEN /\ subject' = IF subject = <<>> THEN subject ELSE Front(subject)
              /\ UNCHANGED <<at, cur, next, rest, hops, suspect>>
         ELSE StartWalk /\ UNCHANGED subject
    /\ UNCHANGED scene

\* Up to the nearest directory that exists.
Climb ==
    /\ at = "begin" /\ use = "directory"
    /\ IF Missing(subject)
         THEN subject' = Front(subject) /\ UNCHANGED <<at, cur, next, rest, hops, suspect>>
         ELSE IF subject = <<>>
         THEN /\ at' = IF LeafDistrust(Root) THEN "refused" ELSE "accepted"
              /\ UNCHANGED walkVars
         ELSE StartWalk /\ UNCHANGED subject
    /\ UNCHANGED scene

\* A directory and everything below it; a link is an entry and is not entered.
Tree(f, d) ==
    LET tree[depth \in Nat] ==
            IF depth = 0 THEN {d}
            ELSE tree[depth - 1] \cup
                 (UNION {{f.entry[n][x] : x \in Names} : n \in tree[depth - 1] \cap Dirs}
                    \ {NoEntry})
    IN  tree[Cardinality(Dirs) + 1]

\* find: the owner of everything, the write bits of all but links and locks;
\* ls: no ACL on anything but a link.
TreeDistrust(d) ==
    \E n \in Tree(fs, d) :
        \/ attr[n] \in {"foreign", "acl"}
        \/ attr[n] # "own" /\ n \notin LockFiles

JudgeTree ==
    /\ at = "tree"
    /\ at' = IF Stat(fs, path) \notin Dirs \/ TreeDistrust(Stat(fs, path)) THEN "refused"
             ELSE "accepted"
    /\ UNCHANGED <<scene, walkVars>>

-----------------------------------------------------------------------------
Walk ==
    \/ Begin \/ Climb \/ Component \/ JudgeAncestor \/ JudgeLink \/ ReadLink
    \/ ComponentsEnd \/ JudgeHolder \/ JudgeLeaf \/ JudgeTree

Spec == Init /\ [][Walk]_vars
FairSpec == Spec /\ WF_vars(Walk)

-----------------------------------------------------------------------------
(* Properties                                                              *)

\* The judgement's own variables are what the shell's can be: names only, as
\* _w_cur never holds "." or "..", and never more links than it counts.
TypeOK ==
    /\ at \in Verdicts \cup {"begin", "component", "ancestor", "link", "readlink",
                             "holder", "leaf", "tree"}
    /\ cur \in Seq(Names) /\ next \in Seq(Names) /\ rest \in Seq(Components)
    /\ hops \in 0..MaxHops + 1 /\ suspect \in BOOLEAN

\* The nodes that decide what the kernel finds at p: nobody but root may
\* rename an entry of a directory it passes, point a link elsewhere, or
\* write what it ends at.
RootsOwn(p) ==
    LET r == Route(fs, p)
    IN  /\ r.node # NoEntry => attr[r.node] = "own"
        /\ \A n \in r.seen : attr[n] \in {"own", "sticky"}

\* What the walk accepts is what the kernel finds, and root alone decides it:
\* every directory and link of the kernel's own resolution passes, although
\* the walk resolves links and ".." by itself on text.  Below an accepted
\* directory nothing can be changed but the content of a lock file.  One
\* accepted for the nearest that exists will be created below that: what is
\* missing first is a plain name, never a link that leads elsewhere.
AcceptedIsRootsOwn ==
    at = "accepted" =>
        /\ RootsOwn(subject)
        /\ use = "program" => subject = path /\ Stat(fs, path) \in Files
        /\ use = "directory" /\ subject = path =>
             \A n \in Tree(fs, Stat(fs, path)) :
                 attr[n] = "own" \/ (n \in LockFiles /\ attr[n] = "open")
        /\ subject # path =>
             Stat(fs, path) = NoEntry /\ Lstat(fs, SubSeq(path, 1, Len(subject) + 1)) = NoEntry

\* A path the kernel resolves through nothing but root's own nodes is never
\* refused as a program, so that root is not sent to another uv without a
\* reason.  (A link whose target ends in "." or ".." is: ls sees the link.)
RefusedForAReason ==
    at = "refused" /\ use = "program" =>
        \/ Stat(fs, path) \notin Files
        \/ \E n \in Route(fs, path).seen : attr[n] # "own"

\* The walk ends, also on links that form a loop.
JudgementEnds == <>(at \in Verdicts)
=============================================================================
