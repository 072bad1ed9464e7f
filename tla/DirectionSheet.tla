---------------------------- MODULE DirectionSheet ----------------------------
(***************************************************************************)
(* draw.mjs and lib/app-draw.mjs: what stands on a sheet once its          *)
(* direction or style is dealt (DirectionDraw).  A page has a hero, a      *)
(* typeface, a palette and one blueprint per section of its argument; an   *)
(* app has a shell and one pattern per screen.  Slots are dealt at random  *)
(* and redrawn one at a time, in any order; a section may also be given a  *)
(* blueprint by name, even one written for another role.                   *)
(* Left out: what a blueprint needs of the project, the tags that stand in *)
(* for its directions, the motion (the first hero's, also after a redraw   *)
(* of the hero), the photographs, and which slots the history leaves out:  *)
(* over all histories, each of them may be dealt.                          *)
(***************************************************************************)
EXTENDS Integers, Sequences, FiniteSets

CONSTANTS Blueprints,   \* records: id, role, shape, led (by "ui", a "picture" or "plain"), dirs
          Argument,     \* the roles of the page's sections, in order
          Dirs,
          SlotPools,    \* slot of a page -> what the direction allows there
          Keepable,     \* the slots in which a project may keep its own
          Shells, OwnShell, OtherShells,   \* the style's shell and its alternatives
          Patterns      \* screen of the app -> its patterns

VARIABLES mode,                 \* imageryMode: the pictures this project can honestly have
          keep,                 \* the slots in which the project keeps its own
          dir, slots, sections, \* the page
          shell, screens        \* the app

sheetVars == <<mode, keep, dir, slots, sections, shell, screens>>

None == "none"
\* A project with photographs of its own is dealt like an "atmosphere".
Modes == {"interface", "no-product-photo", "atmosphere"}
Ids == {b.id : b \in Blueprints}
Roles == {Argument[n] : n \in DOMAIN Argument}

\* Every blueprint of the library has an id of its own and a shape, and a style names shells that
\* it has.
ASSUME SheetAssumption ==
  /\ IsFiniteSet(Blueprints) /\ Argument \in Seq(Roles)
  /\ \A b \in Blueprints : b.id # None /\ b.shape # None
  /\ \A b, c \in Blueprints : b.id = c.id => b = c
  /\ OwnShell \in Shells /\ OtherShells \subseteq Shells

Section(b, role, named) == [id |-> b.id, role |-> role, shape |-> b.shape, named |-> named]
Empty(role) == [id |-> None, role |-> role, shape |-> None, named |-> FALSE]

\* The page's slots and sections, and the app's shell and screens, hold what the library has.
SheetTypeOK ==
  /\ mode \in Modes /\ keep \subseteq Keepable /\ dir \in Dirs
  /\ \A s \in DOMAIN SlotPools : slots[s] \in SlotPools[s] \cup (IF s \in keep THEN {None} ELSE {})
  /\ Len(sections) <= Len(Argument)
  /\ \A n \in DOMAIN sections :
       sections[n] \in [id : Ids \cup {None}, role : Roles, shape : {b.shape : b \in Blueprints} \cup {None},
                        named : BOOLEAN]
  /\ shell \in Shells
  /\ \A n \in DOMAIN Patterns : screens[n] \in Patterns[n] \cup {None}

-------------------------------------------------------------------------------

\* The good ones, unless that leaves none.
Prefer(pool, good) == IF pool \cap good = {} THEN pool ELSE pool \cap good

\* sectionPool: no software blueprints where no software is shown, few that hang on a picture the
\* project cannot have, and those written for the direction before the others.
SectionPool(role) ==
  LET all    == {b \in Blueprints : b.role = role}
      shown  == IF mode = "interface" THEN all ELSE Prefer(all, {b \in all : b.led # "ui"})
      honest == {b \in shown : b.led # "picture"}
      suited == IF mode # "atmosphere" /\ Cardinality(honest) >= 2 THEN honest ELSE shown
  IN Prefer(suited, {b \in suited : dir \in b.dirs})

\* dealSection: for software the coin may leave only what is led by its interface.
Led(role) == {b \in SectionPool(role) : b.led = "ui"}
CoinPools(role) == {SectionPool(role)} \cup
                   (IF mode = "interface" /\ Cardinality(Led(role)) >= 2 THEN {Led(role)} ELSE {})
Dealable(role, used, shapes) ==
  UNION {LET unused == Prefer(pool, {b \in pool : b.id \notin used}) IN
           Prefer(unused, {b \in unused : b.shape \notin shapes}) : pool \in CoinPools(role)}

IdsOf(some) == {some[n].id : n \in DOMAIN some}
ShapeAt(n) == IF n \in DOMAIN sections THEN sections[n].shape ELSE None

\* dealHero, dealType, dealPalette: another one, if there is one.
SlotCandidates(slot, current) == Prefer(SlotPools[slot], SlotPools[slot] \ {current})

\* dealShell: the style's own, an alternative, or else any other; never the one redrawn unless alone.
ShellCandidates(exclude) ==
  IF ({OwnShell} \cup OtherShells) \ exclude # {} THEN ({OwnShell} \cup OtherShells) \ exclude
  ELSE Prefer(Shells, Shells \ exclude)

-------------------------------------------------------------------------------

\* deal: the slots of the page are dealt, then its sections one by one.
DealtSlots == {f \in [DOMAIN SlotPools -> UNION {SlotPools[s] : s \in DOMAIN SlotPools} \cup {None}] :
                 \A s \in DOMAIN SlotPools : IF s \in keep THEN f[s] = None ELSE f[s] \in SlotPools[s]}

SheetInit ==
  /\ mode \in Modes /\ keep \in SUBSET Keepable /\ dir \in Dirs
  /\ slots \in DealtSlots /\ sections = <<>>
  /\ shell \in ShellCandidates({})
  /\ screens \in {f \in [DOMAIN Patterns -> UNION {Patterns[n] : n \in DOMAIN Patterns} \cup {None}] :
                    \A n \in DOMAIN Patterns : IF Patterns[n] = {} THEN f[n] = None ELSE f[n] \in Patterns[n]}

Complete == Len(sections) = Len(Argument)

DealSection ==
  /\ ~Complete
  /\ LET role == Argument[Len(sections) + 1]
         some == Dealable(role, IdsOf(sections), {ShapeAt(Len(sections))})
     IN sections' \in IF some = {} THEN {Append(sections, Empty(role))}
                      ELSE {Append(sections, Section(b, role, FALSE)) : b \in some}
  /\ UNCHANGED <<mode, keep, dir, slots, shell, screens>>

\* --redraw section:<role> finds the first section of the role.
First(role) == CHOOSE n \in DOMAIN sections :
                 /\ sections[n].role = role
                 /\ \A m \in 1 .. n - 1 : sections[m].role # role
HasRole(role) == \E n \in DOMAIN sections : sections[n].role = role

\* What is on the page already.  Mutant: only above the section, as when the page is dealt.
Used_Above(n) == IdsOf(SubSeq(sections, 1, n - 1))
Used(n) == IdsOf(sections)

\* The shapes a redrawn section should differ from.  Mutant: only that of the one above.
ShapesAround_Above(n) == {ShapeAt(n - 1)}
ShapesAround(n) == {ShapeAt(n - 1), ShapeAt(n + 1)}

RedrawSection(role) ==
  /\ Complete /\ HasRole(role)
  /\ LET n    == First(role)
         some == Dealable(role, Used(n), ShapesAround(n))
     IN /\ some # {}
        /\ \E b \in some : sections' = [sections EXCEPT ![n] = Section(b, role, FALSE)]
  /\ UNCHANGED <<mode, keep, dir, slots, shell, screens>>

\* --redraw section:<role>=<id>: any blueprint of the library, borrowed for this role if it is
\* another's.  Mutant: it keeps the role it was written for.
Borrowed_OwnRole(b, role) == Section(b, b.role, TRUE)
Borrowed(b, role) == Section(b, role, TRUE)
TakeNamed(role, b) ==
  /\ Complete /\ HasRole(role)
  /\ sections' = [sections EXCEPT ![First(role)] = Borrowed(b, role)]
  /\ UNCHANGED <<mode, keep, dir, slots, shell, screens>>

RedrawSlot(slot) ==
  /\ Complete
  /\ \E x \in SlotCandidates(slot, slots[slot]) : slots' = [slots EXCEPT ![slot] = x]
  /\ UNCHANGED <<mode, keep, dir, sections, shell, screens>>

\* --redraw direction deals the whole page again for another direction.
RedrawPage ==
  /\ Complete
  /\ dir' \in Dirs \ {dir}
  /\ slots' \in DealtSlots
  /\ sections' = <<>>
  /\ UNCHANGED <<mode, keep, shell, screens>>

RedrawShell ==
  /\ shell' \in ShellCandidates({shell})
  /\ UNCHANGED <<mode, keep, dir, slots, sections, screens>>

\* dealScreen: another pattern of the screen, or the present one if there is no other.
RedrawScreen(n) ==
  /\ Patterns[n] # {}
  /\ \E x \in Prefer(Patterns[n], Patterns[n] \ {screens[n]}) : screens' = [screens EXCEPT ![n] = x]
  /\ UNCHANGED <<mode, keep, dir, slots, sections, shell>>

PageNext ==
  \/ DealSection \/ RedrawPage
  \/ \E role \in Roles : RedrawSection(role) \/ \E b \in Blueprints : TakeNamed(role, b)
  \/ \E slot \in DOMAIN SlotPools : RedrawSlot(slot)
AppNext == RedrawShell \/ \E n \in DOMAIN Patterns : RedrawScreen(n)
SheetNext == PageNext \/ AppNext

SheetSpec == SheetInit /\ [][SheetNext]_sheetVars

-------------------------------------------------------------------------------

\* A role is scarce when a page may have used up what the coin leaves of it.
Scarce(role) == \E pool \in CoinPools(role) : Cardinality(pool) <= Len(Argument)

\* However a page is dealt and redrawn, and whatever its user borrows, no two dealt sections show
\* the same blueprint, unless their role is scarce: the redraw looks at the whole page.
NoBlueprintTwice ==
  \A n, m \in DOMAIN sections :
    n # m /\ sections[n].id = sections[m].id /\ sections[n].id # None =>
      sections[n].named \/ sections[m].named \/ Scarce(sections[n].role)

\* A dealt section looks like the one above it or below it only if all that the coin leaves unused
\* of its role do, whichever of the neighbours was dealt or borrowed last.
ShapesVary ==
  [][\A n \in DOMAIN sections' :
       LET now  == sections'[n]
           near == {sections'[m].shape : m \in {n - 1, n + 1} \cap DOMAIN sections'}
           free == {b \in SectionPool(now.role) : b.id \notin IdsOf(sections)}
       IN (n \notin DOMAIN sections \/ now # sections[n]) /\ ~now.named /\ now.shape \in near =>
            \E pool \in CoinPools(now.role) : \A b \in pool \cap free : b.shape \in near]_sheetVars

\* The sections of a page follow its argument, so that a role can always be redrawn, also after
\* blueprints were borrowed from other roles.
ArgumentKept == \A n \in DOMAIN sections : sections[n].role = Argument[n]
===============================================================================
