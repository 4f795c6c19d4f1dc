---------------------------- MODULE GlassFinder ----------------------------
(***************************************************************************)
(* GlassFinder::enrich and the search of the glass catalogue behind it,    *)
(* and what the import and the model builder make of the columns it writes.*)
(*                                                                         *)
(* Indices are counted in units of 0.00001 and Abbe numbers in units of    *)
(* 0.01, the digits the columns are written with.  A cell that is blank,   *)
(* nought or no number is 0.  A glass's label is a number, and 0 no name;  *)
(* labels compare like the numbers.  Fields behind the eighth are <<>>, or *)
(* <<match>> for a candidate= field.                                       *)
(***************************************************************************)
EXTENDS Ascending, Functions

CONSTANTS Catalogue,   \* the glasses: catalog, label, nd, ne, vd, ve
          Spellings    \* catalogue names as files spell them, to their own

NoName == 0
NoCatalog == ""
NoSection == ""
LensData == "lens data"

catalog_priority == <<"Hoya", "Ohara", "Schott", "Hikari", "CORNING", "SUMITA", "CDGM">>
catalog_rank(catalog) ==
  IF \E i \in DOMAIN catalog_priority : catalog_priority[i] = catalog
  THEN CHOOSE i \in DOMAIN catalog_priority : catalog_priority[i] = catalog
  ELSE Len(catalog_priority) + 1

get_catalog_name(name) == IF name \in DOMAIN Spellings THEN Spellings[name] ELSE NoCatalog

-----------------------------------------------------------------------------
(* Looking a glass up by its names: a set of one glass, or none.           *)

GlassesListed(catalog, label) == {g \in Catalogue : g.catalog = catalog /\ g.label = label}

\* The first catalogue that has a glass of this name.
glass_by_name(label) ==
  LET named == {g \in Catalogue : g.label = label}
  IN {g \in named : \A h \in named : catalog_rank(g.catalog) <= catalog_rank(h.catalog)}

glass_by_catalog_name(catalog, label) ==
  IF catalog = NoCatalog THEN glass_by_name(label)
  ELSE GlassesListed(get_catalog_name(catalog), label)

-----------------------------------------------------------------------------
(* Looking glasses up by their numbers.                                    *)

DEFAULT_ND_TOLERANCE == 500
DEFAULT_VD_TOLERANCE == 100
EXACT_ND_TOLERANCE == 1
EXACT_VD_TOLERANCE == 10
Limit == 3

\* The table: a glass is known by its catalogue and label, and none is near air.
ASSUME CatalogueAssumption ==
  /\ IsFiniteSet(Catalogue)
  /\ \A g \in Catalogue :
       /\ g.catalog \in Range(catalog_priority) /\ g.label \in Nat \ {NoName}
       /\ g.nd \in Nat /\ g.ne \in Nat /\ g.vd \in Nat /\ g.ve \in Nat
       /\ g.nd > 100000 + DEFAULT_ND_TOLERANCE /\ g.ne > 100000 + DEFAULT_ND_TOLERANCE
  /\ \A g, h \in Catalogue : g.catalog = h.catalog /\ g.label = h.label => g = h
  /\ \A catalog \in Range(catalog_priority) :
       catalog \in DOMAIN Spellings /\ Spellings[catalog] = catalog

Distance(a, b) == IF a < b THEN b - a ELSE a - b

GlassMatch(g, n, v, indexLine, abbeLine) ==
  LET dn == Distance(IF indexLine = "e" THEN g.ne ELSE g.nd, n)
      dv == Distance(IF abbeLine = "e" THEN g.ve ELSE g.vd, v)
  IN [glass |-> g, nd_difference |-> dn, vd_difference |-> dv,
      exact |-> dn <= EXACT_ND_TOLERANCE /\ dv <= EXACT_VD_TOLERANCE]

\* (dn / 500)^2 + (dv / 100)^2, 250000 times over.
score(match) == match.nd_difference * match.nd_difference
                  + 25 * match.vd_difference * match.vd_difference

\* A mistake: an exact match is ranked by its distance before its catalogue.
KeyByScore(match) ==
  <<IF match.exact THEN 0 ELSE 1, score(match), match.nd_difference, match.vd_difference,
    catalog_rank(match.glass.catalog), match.glass.label, 0>>

Key(match) ==
  <<IF match.exact THEN 0 ELSE 1,
    IF match.exact THEN catalog_rank(match.glass.catalog) ELSE 0,
    score(match), match.nd_difference, match.vd_difference,
    catalog_rank(match.glass.catalog), match.glass.label>>

Sooner(a, b) ==
  \E i \in 1 .. 7 : Key(a)[i] < Key(b)[i] /\ \A j \in 1 .. i - 1 : Key(a)[j] = Key(b)[j]

Matches(n, v, indexLine, abbeLine) ==
  {m \in {GlassMatch(g, n, v, indexLine, abbeLine) : g \in Catalogue} :
     m.nd_difference <= DEFAULT_ND_TOLERANCE /\ m.vd_difference <= DEFAULT_VD_TOLERANCE}

\* Where a match stands among the others once they are sorted.
Place(matches, m) == 1 + Cardinality({o \in matches : Sooner(o, m)})

find_glasses(n, v, indexLine, abbeLine) ==
  LET matches == Matches(n, v, indexLine, abbeLine)
      count == Cardinality(matches)
  IN [i \in 1 .. (IF count > Limit THEN Limit ELSE count) |->
        CHOOSE m \in matches : Place(matches, m) = i]

-----------------------------------------------------------------------------
(* The lines of a file: section headers, rows of at least six fields, and  *)
(* everything else, whose section and cell say so.                         *)

Header(i, lines) == lines[i].section # NoSection

InLensData(lines, i) ==
  \E s \in 1 .. i : /\ lines[s].section = LensData
                    /\ \A later \in s + 1 .. i : ~Header(later, lines)

\* A mistake: a row that has its glass is matched again.
SearchedAgain(row, force) == row.cell \notin {"none", "AS", "FS", "CG"} /\ row.nd # 0 /\ row.vd # 0

Searched(row, force) ==
  /\ row.cell \notin {"none", "AS", "FS", "CG"}
  /\ row.nd # 0 /\ row.vd # 0
  /\ force \/ row.name = NoName \/ get_catalog_name(row.catalog) = NoCatalog

removeCandidateFields(fields) ==
  LET retained == Increasing({i \in DOMAIN fields : fields[i] = <<>>})
  IN [n \in DOMAIN retained |-> fields[retained[n]]]
formatCandidate(matches) == [i \in DOMAIN matches |-> <<matches[i]>>]
appendCandidates(row, matches) ==
  [row EXCEPT !.rest = removeCandidateFields(@) \o formatCandidate(matches)]

\* A mistake: the index column keeps the e line's index.
AssignedWithoutLine(row, g, eLine) ==
  [row EXCEPT !.name = g.label, !.catalog = g.catalog, !.vd = IF eLine THEN g.vd ELSE @]

Assigned(row, g, eLine) ==
  [row EXCEPT !.name = g.label, !.catalog = g.catalog,
              !.nd = IF eLine THEN g.nd ELSE @, !.vd = IF eLine THEN g.vd ELSE @]

\* The matches are in order, so the first is the one to take when it is exact.
Enriched(row, matches, eLine) ==
  LET assigned == Assigned(row, matches[1].glass, eLine)
  IN IF matches = <<>> THEN row
     ELSE IF Len(matches) = 1 THEN [assigned EXCEPT !.rest = removeCandidateFields(@)]
     ELSE IF matches[1].exact THEN appendCandidates(assigned, matches)
     ELSE appendCandidates(row, matches)

enrich(lines, force, indexLine, abbeLine) ==
  [i \in DOMAIN lines |->
     IF InLensData(lines, i) /\ Searched(lines[i], force)
     THEN Enriched(lines[i], find_glasses(lines[i].nd, lines[i].vd, indexLine, abbeLine),
                   "e" \in {indexLine, abbeLine})
     ELSE lines[i]]

-----------------------------------------------------------------------------
(* The medium behind a surface. *)

Air == [glass |-> {}, nd |-> 0, vd |-> 0]

\* import_surface: a name is kept when the catalogues have it.
Names(row, use_glass_types) ==
  IF use_glass_types /\ row.name # NoName
       /\ glass_by_catalog_name(get_catalog_name(row.catalog), row.name) # {}
  THEN [name |-> row.name, catalog |-> get_catalog_name(row.catalog)]
  ELSE [name |-> NoName, catalog |-> NoCatalog]

import_medium(row, use_glass_types) ==
  IF row.cell \in {"AS", "FS"} THEN [name |-> NoName, catalog |-> NoCatalog, nd |-> 0, vd |-> 0]
  ELSE [name |-> Names(row, use_glass_types).name, catalog |-> Names(row, use_glass_types).catalog,
        nd |-> row.nd, vd |-> row.vd]

\* add_surface and create_surface_and_gap.
Medium(imported) ==
  LET found == glass_by_catalog_name(imported.catalog, imported.name)
  IN IF imported.nd \in {0, 100000} THEN Air
     ELSE IF imported.name # NoName /\ found # {} THEN [glass |-> found, nd |-> 0, vd |-> 0]
     ELSE [glass |-> {}, nd |-> imported.nd, vd |-> imported.vd]

\* SurfaceType::to_opt_bench_str: a glass that is found is written with its
\* own numbers and names.
medium_to_opt_bench_row(cell, imported) ==
  LET found == IF imported.nd = 0 \/ imported.name = NoName THEN {}
               ELSE glass_by_catalog_name(imported.catalog, imported.name)
      g == CHOOSE g \in found : TRUE
  IN [section |-> NoSection, cell |-> cell, rest |-> <<>>,
      nd |-> IF found # {} THEN g.nd ELSE imported.nd,
      vd |-> IF imported.nd = 0 THEN 0 ELSE IF found # {} THEN g.vd ELSE imported.vd,
      name |-> IF found # {} THEN g.label ELSE NoName,
      catalog |-> IF found # {} THEN g.catalog ELSE NoCatalog]
=============================================================================
