----------------------------- MODULE Structures -----------------------------
(***************************************************************************)
(* Structures, the modules of the language (src/src/structures.c): tables  *)
(* of bindings that export some of their symbols and search the structures *)
(* they have opened, behind one cache of the results of those searches.    *)
(*                                                                         *)
(* A binding is a node <<s, v>>: what it is bound to is left out, since    *)
(* the cache holds nodes and not values, and with it is_constant, which    *)
(* only keeps the value from being changed.  The hash tables are sets of   *)
(* nodes, and the sets of the cache one sequence, oldest line first, as    *)
(* if every symbol fell in the same set.  Lisp code runs in the structure  *)
(* cur; the stack holds the C functions that are waiting for it.           *)
(***************************************************************************)
EXTENDS Naturals, Sequences, FiniteSets, SequencesExt

CONSTANTS
  Structs,     \* structure objects
  Names,       \* names of structures
  Vars,        \* symbols bound in structures
  Ifaces,      \* interfaces named by define-interface
  None,
  Default,     \* rep_default_structure
  Meta,        \* the structure %meta, and its name:
  MetaName,
  Lazy,        \* structures made by rep_lazy_structure()
  NameOf,      \* the names of the structures that exist from the start
  Provided,    \* the symbols those structures bind and export
  IfaceList,   \* the symbols of each named interface
  Assoc,       \* CACHE_ASSOC, the lines of a set
  MaxDepth,    \* bound on nested make-structure, open-structures and load
  MaxOpened,   \* bound on the structures one structure opens
  MaxNames,    \* bound on the names given to one call of open-structures
  MaxMarks,    \* bound on structures that export all and on accessible names
  LispOps      \* what the Lisp program does

ASSUME StructuresAssumption ==
  /\ None \notin Structs \cup Names \cup Vars \cup Ifaces
  /\ Structs \cap Names = {}
  /\ {Default, Meta} \subseteq DOMAIN NameOf
  /\ DOMAIN NameOf = DOMAIN Provided
  /\ NameOf[Meta] = MetaName
  /\ Lazy \subseteq DOMAIN NameOf
  /\ DOMAIN IfaceList = Ifaces
  /\ Assoc \in Nat \ {0}
  /\ {MaxDepth, MaxOpened, MaxNames, MaxMarks} \subseteq Nat

VARIABLES
  live,        \* all_structures
  named,       \* the structure %structures: names to structures
  bound,       \* the nodes in the hash tables
  exported,    \* is_exported
  own, shared, \* the list inherited: the symbols in cells of the structure's
               \* own, and the cell of a named interface it continues with
  cdr,         \* the cells of the named interfaces
  exportAll,   \* rep_STF_EXPORT_ALL
  lazy,        \* structures whose init function has not been called
  imports, accessible,
  cache,       \* ref_cache: the lines of the current epoch, oldest first
  cur,         \* rep_structure
  stack

tableVars == <<bound, exported>>
listVars == <<own, shared, cdr>>
openVars == <<imports, accessible>>
runVars == <<cur, stack>>
vars == <<live, named, tableVars, listVars, exportAll, lazy, openVars, cache, runVars>>

Nodes == Structs \X Vars
Cells == Ifaces \X Vars
Lines == [s : Structs, v : Vars, n : Nodes \cup {None}]
Opened == (Names \cup Structs) \ {MetaName}
Frames == [k : {"header", "body", "open", "access", "load", "eval"}, s : Structs, name : Names \cup {None},
           body : BOOLEAN, rest : Seq(Opened), loaded : BOOLEAN, old : Structs]

TypeOK ==
  /\ live \subseteq Structs
  /\ named \in [Names -> live \cup {None}]
  /\ bound \subseteq live \X Vars
  /\ exported \subseteq bound
  /\ own \in [Structs -> SUBSET Vars]
  /\ shared \in [Structs -> Cells \cup {None}]
  /\ cdr \in [Cells -> Cells \cup {None}]
  /\ exportAll \subseteq live
  /\ lazy \subseteq Lazy
  /\ imports \in [Structs -> Seq(Opened \cup {MetaName})]
  /\ accessible \in [Structs -> SUBSET Names]
  /\ cache \in Seq(Lines)
  /\ Len(cache) <= Assoc
  /\ cur \in live
  /\ stack \in Seq(Frames)

(* The structures of the C code and of bootstrap, without any cached line. *)
Init ==
  /\ live = DOMAIN NameOf
  /\ named = [n \in Names |-> IF \E s \in live : NameOf[s] = n
                              THEN CHOOSE s \in live : NameOf[s] = n ELSE None]
  /\ bound = {b \in live \X Vars : b[2] \in Provided[b[1]]}
  /\ exported = bound
  /\ own = [s \in Structs |-> {}]
  /\ shared = [s \in Structs |-> None]
  /\ cdr = [c \in Cells |->
       LET l == IfaceList[c[1]]
           i == CHOOSE i \in 1 .. Len(l) : l[i] = c[2]
       IN IF c[2] \in ToSet(l) /\ i < Len(l) THEN <<c[1], l[i + 1]>> ELSE None]
  /\ exportAll = {}
  /\ lazy = Lazy
  /\ imports = [s \in Structs |-> <<>>]
  /\ accessible = [s \in Structs |-> {}]
  /\ cache = <<>>
  /\ cur = Default
  /\ stack = <<>>

-----------------------------------------------------------------------------
(* The cache. *)

InvalidateSymbol(c, v) == SelectSeq(c, LAMBDA l : l.v # v)

EnterCache(c, line) ==
  Append(IF Len(c) = Assoc THEN Tail(c) ELSE c, line)

(* The line of a set lookup_cache() stops at; a set may hold two lines for  *)
(* one symbol, in slots whose order the sequence does not keep.             *)
Hits(c, s, v) == {i \in 1 .. Len(c) : c[i].s = s /\ c[i].v = v}
Touch(c, i) == Append(RemoveAt(c, i), c[i])

-----------------------------------------------------------------------------
(* Searching.  x is what a search changes: [c |-> the cache, z |-> lazy].   *)

(* The list inherited, from the cell c of a named interface on. *)
RECURSIVE Chain(_, _)
Chain(d, c) == IF c = None THEN {} ELSE {c[2]} \cup Chain(d, d[c])

StructureExportsInherited(s, v) ==
  s \in exportAll \/ v \in own[s] \/ v \in Chain(cdr, shared[s])

Visible(s, v) == <<s, v>> \in exported \/ s \in exportAll

FindStructure(e) == IF e \in Names THEN named[e] ELSE e

(* init_struct(): the init function adds the subrs of the structure. *)
InitStruct(x, s) ==
  IF s \notin x.z THEN x
  ELSE [c |-> SelectSeq(x.c, LAMBDA l : l.v \notin Provided[s]), z |-> x.z \ {s}]

RECURSIVE LookupRecursively(_, _, _, _), SearchImports(_, _, _, _), SearchList(_, _, _, _)

LookupRecursively(e, v, excl, x) ==
  LET s == FindStructure(e)
      y == InitStruct(x, s)
  IN IF s = None \/ s \in excl THEN [n |-> None, x |-> x]
     ELSE IF <<s, v>> \in bound
          THEN [n |-> IF Visible(s, v) THEN <<s, v>> ELSE None, x |-> y]
     ELSE IF StructureExportsInherited(s, v) THEN SearchImports(s, v, excl \cup {s}, y)
     ELSE [n |-> None, x |-> y]

SearchImports(s, v, excl, x) ==
  IF Hits(x.c, s, v) # {}
  THEN LET i == CHOOSE i \in Hits(x.c, s, v) : TRUE
       IN [n |-> x.c[i].n, x |-> [x EXCEPT !.c = Touch(x.c, i)]]
  ELSE LET r == SearchList(imports[s], v, excl, x)
       IN [r EXCEPT !.x.c = EnterCache(r.x.c, [s |-> s, v |-> v, n |-> r.n])]

SearchList(l, v, excl, x) ==
  IF l = <<>> THEN [n |-> None, x |-> x]
  ELSE LET r == LookupRecursively(Head(l), v, excl, x)
       IN IF r.n # None THEN r ELSE SearchList(Tail(l), v, excl, r.x)

Now == [c |-> cache, z |-> lazy]

-----------------------------------------------------------------------------
(* Bindings.  Lisp code runs unless a C function is between two of its      *)
(* steps.                                                                   *)

Running == stack # <<>> => Last(stack).k \notin {"open", "access"}
Lisp(op) == Running /\ op \in LispOps

Marks == Cardinality(exportAll)
         + Cardinality({sn \in Structs \X Names : sn[2] \in accessible[sn[1]]})

(* structure-ref, structure-bound?, structure-exports?, binding-immutable?  *)
(* and the instruction REFQ: the binding in s, or else in what s opens.     *)
Reference(s, v) ==
  /\ Lisp("ref")
  /\ LET y == InitStruct(Now, s)
         x == IF <<s, v>> \in bound THEN y ELSE SearchImports(s, v, {}, y).x
     IN cache' = x.c /\ lazy' = x.z
  /\ UNCHANGED <<live, named, tableVars, listVars, exportAll, openVars, runVars>>

(* structure-access, also of a structure that is opened. *)
StructureAccess(e, v) ==
  /\ Lisp("access")
  /\ e \in accessible[cur] \cup ToSet(imports[cur])
  /\ LET x == LookupRecursively(e, v, {}, Now).x
     IN cache' = x.c /\ lazy' = x.z
  /\ UNCHANGED <<live, named, tableVars, listVars, exportAll, openVars, runVars>>

(* Fdelq(v, s->inherited): cells of a named interface are changed for all.  *)
Delq(s, v) ==
  LET c == shared[s] IN
  /\ own' = [own EXCEPT ![s] = @ \ {v}]
  /\ IF c # None /\ c[2] = v
     THEN shared' = [shared EXCEPT ![s] = cdr[c]] /\ UNCHANGED cdr
     ELSE /\ cdr' = [d \in Cells |-> IF c # None /\ d[1] = c[1] /\ d[2] \in Chain(cdr, c)
                                        /\ cdr[d] # None /\ cdr[d][2] = v
                                     THEN cdr[cdr[d]] ELSE cdr[d]]
          /\ UNCHANGED shared

(* Mutant of Adopt: the node stays private. *)
Adopt_Unexported(s, v) == UNCHANGED exported /\ Delq(s, v)

(* A symbol of the interface is bound: the node is exported from now on.    *)
Adopt(s, v) == exported' = exported \cup {<<s, v>>} /\ Delq(s, v)

LookupOrAdd(s, v) ==
  LET y == InitStruct(Now, s) IN
  /\ lazy' = y.z
  /\ IF <<s, v>> \in bound
     THEN cache' = y.c /\ UNCHANGED <<bound, exported, listVars>>
     ELSE /\ bound' = bound \cup {<<s, v>>}
          /\ IF StructureExportsInherited(s, v)
             THEN Adopt(s, v)
             ELSE UNCHANGED <<exported, listVars>>
          /\ cache' = InvalidateSymbol(y.c, v)

(* structure-define, also for %define and the specials, and structure-set!  *)
(* in a structure with rep_STF_SET_BINDS; without that flag, structure-set! *)
(* changes the value of a node or signals an error.                         *)
StructureDefine(s, v) ==
  /\ Lisp("define")
  /\ LookupOrAdd(s, v)
  /\ UNCHANGED <<live, named, exportAll, openVars, runVars>>

(* A void value: remove_binding().  The structure no longer exports the     *)
(* symbol, whose cell of inherited is gone.                                 *)
RemoveBinding(s, v) ==
  /\ Lisp("unbind")
  /\ <<s, v>> \in bound
  /\ s \notin lazy
  /\ "unexport" \notin LispOps => <<s, v>> \notin exported \/ s \in exportAll
  /\ bound' = bound \ {<<s, v>>}
  /\ exported' = exported \ {<<s, v>>}
  /\ cache' = InvalidateSymbol(cache, v)
  /\ UNCHANGED <<live, named, listVars, exportAll, lazy, openVars, runVars>>

ExportBinding(v) ==
  /\ Lisp("export")
  /\ lazy' = InitStruct(Now, cur).z
  /\ LET c == InitStruct(Now, cur).c IN
     \/ /\ <<cur, v>> \in bound \ exported
        /\ exported' = exported \cup {<<cur, v>>}
        /\ cache' = InvalidateSymbol(c, v)
        /\ UNCHANGED own
     \/ /\ <<cur, v>> \notin bound
        /\ ~StructureExportsInherited(cur, v)
        /\ own' = [own EXCEPT ![cur] = @ \cup {v}]
        /\ cache' = InvalidateSymbol(c, v)
        /\ UNCHANGED exported
  /\ UNCHANGED <<live, named, bound, shared, cdr, exportAll, openVars, runVars>>

(* set-structure-interface! with a list of the symbols sig, which is copied.*)
SetStructureInterface(s, sig) ==
  /\ Lisp("interface")
  /\ LET here == {v \in Vars : <<s, v>> \in bound /\ s \notin lazy} IN
     /\ own' = [own EXCEPT ![s] = sig \ here]
     /\ exported' = {n \in exported : n[1] # s \/ s \in lazy} \cup ({s} \X (sig \cap here))
  /\ shared' = [shared EXCEPT ![s] = None]
  /\ exportAll' = exportAll \ {s}
  /\ cache' = <<>>
  /\ UNCHANGED <<live, named, bound, cdr, lazy, openVars, runVars>>

(* Structures that have opened s, by any of its names. *)
Openers(s) == {t \in live : \E e \in ToSet(imports[t]) : FindStructure(e) = s}

(* set-structure-implicit-export! tests STATUS as C and not as Lisp, so nil *)
(* sets the flag as well; the cache is left alone.                          *)
SetImplicitExport(s) ==
  /\ Lisp("export-all")
  /\ "late-export" \notin LispOps => Openers(s) = {}
  /\ Marks < MaxMarks
  /\ exportAll' = exportAll \cup {s}
  /\ UNCHANGED <<live, named, tableVars, listVars, lazy, openVars, cache, runVars>>

-----------------------------------------------------------------------------
(* Making structures, and opening them. *)

Push(f) == stack' = Append(stack, f)
Frame(k, s, name, body, rest) ==
  [k |-> k, s |-> s, name |-> name, body |-> body, rest |-> rest, loaded |-> FALSE, old |-> cur]
Top == Last(stack)
Return == stack' = Front(stack) /\ cur' = Top.old

(* make-structure: the symbols sig of a list of its own, or the list of a   *)
(* named interface i, which is not copied.                                  *)
MakeStructure(s, sig, i, name, header, body) ==
  /\ Lisp("make")
  /\ s \notin live
  /\ Len(stack) < MaxDepth
  /\ name # None /\ "rename" \notin LispOps => named[name] = None
  /\ live' = live \cup {s}
  /\ named' = IF name = None THEN named ELSE [named EXCEPT ![name] = s]
  /\ own' = [own EXCEPT ![s] = IF i = None THEN sig ELSE {}]
  /\ shared' = [shared EXCEPT ![s] = IF i = None THEN None ELSE <<i, IfaceList[i][1]>>]
  /\ imports' = [imports EXCEPT ![s] = IF header THEN <<MetaName>> ELSE <<>>]
  /\ IF header \/ body
     THEN /\ Push(Frame(IF header THEN "header" ELSE "body", s, name, body, <<>>))
          /\ cur' = s
     ELSE UNCHANGED runVars
  /\ UNCHANGED <<tableVars, cdr, exportAll, lazy, accessible, cache>>

(* The lines a lookup through %meta has left are not there any more when    *)
(* open-structures or access-structures was the last call of a header.      *)
MetaForgotten ==
  "leave-meta" \notin LispOps => \A l \in ToSet(cache) : (l.n # None => l.n[1] # Meta)

(* The header has returned: %meta is closed and the body called, if any.    *)
HeaderDone ==
  /\ stack # <<>>
  /\ Top.k = "header"
  /\ MetaForgotten
  /\ imports' = [imports EXCEPT ![Top.s] = SelectSeq(@, LAMBDA e : e # MetaName)]
  /\ IF Top.body
     THEN stack' = [stack EXCEPT ![Len(stack)].k = "body"] /\ UNCHANGED cur
     ELSE Return
  /\ UNCHANGED <<live, named, tableVars, listVars, exportAll, lazy, accessible, cache>>

BodyDone ==
  /\ stack # <<>>
  /\ Top.k = "body"
  /\ Return
  /\ UNCHANGED <<live, named, tableVars, listVars, exportAll, lazy, openVars, cache>>

(* The header or the body has thrown: the name is taken back. *)
MakeFails ==
  /\ stack # <<>>
  /\ Top.k \in {"header", "body"}
  /\ Top.k = "header" => MetaForgotten
  /\ "late-fail" \notin LispOps => Openers(Top.s) = {}
  /\ named' = IF Top.name = None THEN named ELSE [named EXCEPT ![Top.name] = None]
  /\ imports' = IF Top.k = "body" THEN imports
                ELSE [imports EXCEPT ![Top.s] = SelectSeq(@, LAMBDA e : e # MetaName)]
  /\ Return
  /\ UNCHANGED <<live, tableVars, listVars, exportAll, lazy, accessible, cache>>

(* alias-structure of structures.jl. *)
AliasStructure(from, to) ==
  /\ Lisp("alias")
  /\ "rename" \notin LispOps => named[to] = None
  /\ named[from] # None
  /\ named' = [named EXCEPT ![to] = named[from]]
  /\ UNCHANGED <<live, tableVars, listVars, exportAll, lazy, openVars, cache, runVars>>

(* open-structures and access-structures of the current structure. *)
OpenStructures(args) ==
  /\ Lisp("open")
  /\ Len(stack) < MaxDepth
  /\ Push(Frame("open", cur, None, FALSE, args))
  /\ UNCHANGED <<live, named, tableVars, listVars, exportAll, lazy, openVars, cache, cur>>

AccessStructures(args) ==
  /\ Lisp("access")
  /\ Len(stack) < MaxDepth
  /\ Push(Frame("access", cur, None, FALSE, args))
  /\ UNCHANGED <<live, named, tableVars, listVars, exportAll, lazy, openVars, cache, cur>>

Opening == stack # <<>> /\ Top.k \in {"open", "access"}
Had(e) == IF Top.k = "open" THEN e \in ToSet(imports[Top.s]) ELSE e \in accessible[Top.s]

(* The structures that s opens, directly or through others. *)
RECURSIVE Reaches(_, _)
Reaches(s, seen) ==
  IF s \in seen \cup {None} THEN seen
  ELSE FoldSeq(LAMBDA e, acc : Reaches(FindStructure(e), acc), seen \cup {s}, imports[s])

(* On to the next structure of the list, unless rep_INTERRUPTP. *)
NextArg ==
  \E rest \in {Tail(Top.rest), <<>>} :
    stack' = [stack EXCEPT ![Len(stack)].rest = rest, ![Len(stack)].loaded = FALSE]

(* One structure of the list: it is already opened, or it exists.  Whether  *)
(* it is opened was tested before it was loaded.                            *)
OpenNext ==
  /\ Opening
  /\ Top.rest # <<>>
  /\ LET e == Head(Top.rest)
         s == FindStructure(e)
     IN /\ (~Top.loaded /\ Had(e)) \/ s # None
        /\ IF ~Top.loaded /\ Had(e) THEN UNCHANGED openVars
           ELSE IF Top.k = "open"
           THEN /\ Len(imports[Top.s]) < MaxOpened
                /\ "cycle" \notin LispOps => Top.s \notin Reaches(s, {})
                /\ imports' = [imports EXCEPT ![Top.s] = <<e>> \o @]
                /\ UNCHANGED accessible
           ELSE /\ Marks < MaxMarks
                /\ accessible' = [accessible EXCEPT ![Top.s] = @ \cup {e}]
                /\ UNCHANGED imports
  /\ NextArg
  /\ UNCHANGED <<live, named, tableVars, listVars, exportAll, lazy, cache, cur>>

(* intern-structure: a structure that does not exist is loaded, by code     *)
(* that runs in the user's module.                                          *)
OpenLoads ==
  /\ Opening
  /\ Top.rest # <<>>
  /\ ~Top.loaded
  /\ LET e == Head(Top.rest) IN ~Had(e) /\ FindStructure(e) = None
  /\ Len(stack) < MaxDepth
  /\ stack' = Append([stack EXCEPT ![Len(stack)].loaded = TRUE], Frame("load", cur, None, FALSE, <<>>))
  /\ cur' = Default
  /\ UNCHANGED <<live, named, tableVars, listVars, exportAll, lazy, openVars, cache>>

(* When it fails, the rest of the list is not opened. *)
LoadDone ==
  /\ stack # <<>>
  /\ Top.k = "load"
  /\ \E ok \in BOOLEAN :
       stack' = IF ok THEN Front(stack) ELSE [Front(stack) EXCEPT ![Len(stack) - 1].rest = <<>>]
  /\ cur' = Top.old
  /\ UNCHANGED <<live, named, tableVars, listVars, exportAll, lazy, openVars, cache>>

(* Mutant of OpenDone: the cache is not flushed. *)
OpenDone_NoFlush ==
  /\ Opening
  /\ Top.rest # <<>> => Top.loaded /\ FindStructure(Head(Top.rest)) = None
  /\ Return
  /\ UNCHANGED <<live, named, tableVars, listVars, exportAll, lazy, openVars, cache>>

(* The end of the list, or a structure that does not exist and could not be *)
(* loaded: the cache is flushed in each case.                               *)
OpenDone ==
  /\ Opening
  /\ Top.rest # <<>> => Top.loaded /\ FindStructure(Head(Top.rest)) = None
  /\ Return
  /\ cache' = <<>>
  /\ UNCHANGED <<live, named, tableVars, listVars, exportAll, lazy, openVars>>

(* eval in a structure, and a closure that is called from another one. *)
EvalIn(s) ==
  /\ Lisp("eval")
  /\ Len(stack) < MaxDepth
  /\ s # cur
  /\ cache' = InitStruct(Now, s).c
  /\ lazy' = InitStruct(Now, s).z
  /\ Push(Frame("eval", s, None, FALSE, <<>>))
  /\ cur' = s
  /\ UNCHANGED <<live, named, tableVars, listVars, exportAll, openVars>>

EvalDone ==
  /\ stack # <<>>
  /\ Top.k = "eval"
  /\ Return
  /\ UNCHANGED <<live, named, tableVars, listVars, exportAll, lazy, openVars, cache>>

(* structure_sweep(): structures no root, name, waiting call or live        *)
(* structure refers to are freed with their nodes, if Lisp does not hold    *)
(* them, and the cache is flushed.                                          *)
Rooted == (DOMAIN NameOf) \cup {cur} \cup {named[n] : n \in Names}
          \cup UNION {{stack[i].s, stack[i].old} : i \in 1 .. Len(stack)}

StructureSweep(dead) ==
  /\ Lisp("gc")
  /\ dead \cap Rooted = {}
  /\ \A t \in live \ dead : ToSet(imports[t]) \cap dead = {}
  /\ \A i \in 1 .. Len(stack) : ToSet(stack[i].rest) \cap dead = {}
  /\ live' = live \ dead
  /\ bound' = {n \in bound : n[1] \notin dead}
  /\ exported' = {n \in exported : n[1] \notin dead}
  /\ own' = [s \in Structs |-> IF s \in dead THEN {} ELSE own[s]]
  /\ shared' = [s \in Structs |-> IF s \in dead THEN None ELSE shared[s]]
  /\ exportAll' = exportAll \ dead
  /\ imports' = [s \in Structs |-> IF s \in dead THEN <<>> ELSE imports[s]]
  /\ accessible' = [s \in Structs |-> IF s \in dead THEN {} ELSE accessible[s]]
  /\ cache' = <<>>
  /\ UNCHANGED <<named, cdr, lazy, runVars>>

-----------------------------------------------------------------------------
(* The structures the program changes and searches are those that it makes; *)
(* in the others it only runs.  It is the top level that calls closures of  *)
(* another structure.  Structures with a name have a header and a body.     *)
User == live \ DOMAIN NameOf
Lists(S) == UNION {[1 .. n -> S] : n \in 1 .. MaxNames}
Openable == (Names \ {NameOf[Default], MetaName}) \cup {s \in live : \A n \in Names : named[n] # s}

Next ==
  \/ \E s \in User, v \in Vars : Reference(s, v)
  \/ \E e \in Names, v \in Vars : StructureAccess(e, v)
  \/ \E s \in User, v \in Vars :
       StructureDefine(s, v) \/ RemoveBinding(s, v)
  \/ cur \in User /\ \E v \in Vars : ExportBinding(v)
  \/ \E s \in User, sig \in SUBSET Vars : SetStructureInterface(s, sig)
  \/ \E s \in User : SetImplicitExport(s)
  \/ \E s \in Structs, sig \in SUBSET Vars, name \in (Names \ {MetaName}) \cup {None} :
       MakeStructure(s, sig, None, name, name # None, name # None)
  \/ \E s \in Structs, i \in Ifaces, name \in (Names \ {MetaName}) \cup {None} :
       MakeStructure(s, {}, i, name, name # None, name # None)
  \/ HeaderDone \/ BodyDone \/ MakeFails
  \/ \E from, to \in Names \ {MetaName} : AliasStructure(from, to)
  \/ cur \in User /\ \E args \in Lists(Openable) : OpenStructures(args)
  \/ cur \in User /\ \E args \in Lists(Openable \cap Names) : AccessStructures(args)
  \/ OpenNext \/ OpenLoads \/ LoadDone \/ OpenDone
  \/ stack = <<>> /\ \E s \in User : EvalIn(s)
  \/ EvalDone
  \/ \E dead \in SUBSET User : StructureSweep(dead)

Spec == Init /\ [][Next]_vars
=============================================================================
