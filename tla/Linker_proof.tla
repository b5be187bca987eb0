----------------------------- MODULE Linker_proof -----------------------------
(***************************************************************************)
(* The linker's merging and layout are right for all object files, however *)
(* many sections of whatever size they have: not only for the ones its     *)
(* parsers deliver.                                                        *)
(***************************************************************************)
EXTENDS Linker, RecursiveFunctions, TLAPS

(* A nonempty set of numbers has a least one.                              *)
LEMMA LeastExists ==
  ASSUME NEW set, set \subseteq Nat, set # {}
  PROVE  FirstOf(set) \in set /\ \A n \in set : FirstOf(set) <= n
<1>1. \E m \in set : \A n \in set : m <= n
  BY LeastNumber
<1> QED BY <1>1, Zenon DEF FirstOf

(* What replacing one element does to a sequence.                          *)
LEMMA ElementReplaced ==
  ASSUME NEW S, NEW q \in Seq(S), NEW i \in 1 .. Len(q), NEW e \in S
  PROVE  LET r == [q EXCEPT ![i] = e]
         IN /\ r \in Seq(S) /\ Len(r) = Len(q)
            /\ \A j \in 1 .. Len(q) : r[j] = IF j = i THEN e ELSE q[j]
OBVIOUS

LEMMA ElementAppended ==
  ASSUME NEW S, NEW q \in Seq(S), NEW e \in S
  PROVE  /\ Append(q, e) \in Seq(S) /\ Append(q, e) # <<>>
         /\ Len(Append(q, e)) = Len(q) + 1
         /\ Append(q, e)[Len(q) + 1] = e
         /\ \A k \in 1 .. Len(q) : Append(q, e)[k] = q[k]
OBVIOUS

LEMMA LastElement ==
  ASSUME NEW S, NEW q \in Seq(S)
  PROVE  Len(q) \in Nat /\ (q = <<>> <=> Len(q) = 0)
OBVIOUS

(* What setting the offset of one section does to the objects.             *)
LEMMA ObjectsUpdate ==
  ASSUME objects \in Seq(Object), NEW i \in 1 .. Len(objects),
         NEW s \in 1 .. Len(objects[i].sections), NEW v \in Nat,
         objects' = [objects EXCEPT ![i].sections[s].offset = v]
  PROVE  /\ objects' \in Seq(Object)
         /\ Len(objects') = Len(objects)
         /\ \A j \in 1 .. Len(objects) :
              /\ objects'[j].symbols = objects[j].symbols
              /\ Len(objects'[j].sections) = Len(objects[j].sections)
              /\ \A t \in 1 .. Len(objects[j].sections) :
                   /\ objects'[j].sections[t].name = objects[j].sections[t].name
                   /\ objects'[j].sections[t].size = objects[j].sections[t].size
                   /\ objects'[j].sections[t].offset =
                        IF j = i /\ t = s THEN v ELSE objects[j].sections[t].offset
<1> DEFINE section == [objects[i].sections[s] EXCEPT !.offset = v]
           sections == [objects[i].sections EXCEPT ![s] = section]
           object == [objects[i] EXCEPT !.sections = sections]
<1>1. objects[i] \in Object
  OBVIOUS
<1>2. objects[i].sections \in Seq(Section) /\ objects[i].symbols \in Seq(Symbol)
  BY <1>1 DEF Object
<1>3. objects[i].sections[s] \in Section
  BY <1>2
<1>4. /\ section \in Section
      /\ section.name = objects[i].sections[s].name
      /\ section.size = objects[i].sections[s].size
      /\ section.offset = v
  BY <1>3 DEF Section
<1>5. objects' = [objects EXCEPT ![i] = object]
  OBVIOUS
<1> HIDE DEF section
<1>6. /\ sections \in Seq(Section) /\ Len(sections) = Len(objects[i].sections)
      /\ \A t \in 1 .. Len(objects[i].sections) :
           sections[t] = IF t = s THEN section ELSE objects[i].sections[t]
  BY <1>2, <1>4
<1> HIDE DEF sections
<1>7. object \in Object /\ object.sections = sections /\ object.symbols = objects[i].symbols
  BY <1>1, <1>6 DEF Object
<1> HIDE DEF object
<1>8. /\ [objects EXCEPT ![i] = object] \in Seq(Object)
      /\ Len([objects EXCEPT ![i] = object]) = Len(objects)
      /\ \A j \in 1 .. Len(objects) :
           [objects EXCEPT ![i] = object][j] = IF j = i THEN object ELSE objects[j]
  <2>1. object \in Object
    BY <1>7
  <2> HIDE <1>5
  <2> QED BY <2>1, ElementReplaced
<1>9. /\ objects' \in Seq(Object) /\ Len(objects') = Len(objects)
      /\ \A j \in 1 .. Len(objects) : objects'[j] = IF j = i THEN object ELSE objects[j]
  BY <1>5, <1>8, Zenon
<1> QED BY <1>4, <1>6, <1>7, <1>9

-----------------------------------------------------------------------------
(* The invariant, part by part; what it says of sections is stated for any *)
(* list of objects, so that it can be moved from one to the next.          *)

IsChunk(objs, c) == c[1] \in 1 .. Len(objs) /\ c[2] \in 1 .. Len(objs[c[1]].sections)
In(objs, c) == objs[c[1]].sections[c[2]]
EndIn(objs, c) == In(objs, c).offset + In(objs, c).size

TiledIn(objs, section) ==
  /\ \A k \in 1 .. Len(section.data) :
       /\ IsChunk(objs, section.data[k])
       /\ In(objs, section.data[k]).offset = IF k = 1 THEN 0 ELSE EndIn(objs, section.data[k - 1])
  /\ section.size = IF section.data = <<>> THEN 0 ELSE EndIn(objs, section.data[Len(section.data)])

(* An object has sections, and its symbols are in them.                    *)
ObjectsOK(objs) ==
  \A i \in 1 .. Len(objs) :
    /\ Len(objs[i].sections) > 0
    /\ \A s \in 1 .. Len(objs[i].symbols) :
         objs[i].symbols[s].section \in 1 .. Len(objs[i].sections)

(* What is merged so far is in front of the input section link is at.      *)
MergedBefore(ms, c) ==
  \A m \in 1 .. Len(ms) : \A k \in 1 .. Len(ms[m].data) : Before(ms[m].data[k], c)

NamesDiffer(ms) ==
  \A m, n \in 1 .. Len(ms) : m # n => ms[m].name # ms[n].name

(* A section of this name is merged, and the chunk is in it.               *)
PlacedIn(ms, c, name) ==
  \E m \in 1 .. Len(ms) :
    ms[m].name = name /\ \E k \in 1 .. Len(ms[m].data) : ms[m].data[k] = c

AllPlaced ==
  \A c \in Nat \X Nat :
    IsChunk(objects, c) /\ (phase = "merge" => Before(c, input))
      => PlacedIn(merged_sections, c, In(objects, c).name)

LaidOut ==
  /\ current_address >= Base /\ current_address % 16 = 0
  /\ \A m \in 1 .. Len(addresses) : addresses[m] + merged_sections[m].size <= current_address

Merging == phase = "merge"
Laying == phase \in {"layout", "generate"}

LinkInv ==
  /\ LinkerTypeOK
  /\ ObjectsOK(objects)
  /\ \A m \in 1 .. Len(merged_sections) : TiledIn(objects, merged_sections[m])
  /\ NamesDiffer(merged_sections)
  /\ Merging => MergedBefore(merged_sections, input)
  /\ Merging \/ Laying => AllPlaced
  /\ Laying => LaidOut
  /\ SectionsDisjoint
  /\ phase \in {"merge", "layout"} /\ EntryFound => entry_address = Placeholder
  /\ EntryAtSymbol

LEMMA ChunkIs ==
  ASSUME NEW c
  PROVE  c \in Chunks <=> c \in Nat \X Nat /\ IsChunk(objects, c)
BY DEF Chunks, ChunksOf, IsChunk

LEMMA TiledIs ==
  ASSUME NEW section \in MergedSection
  PROVE  Tiled(section) <=> TiledIn(objects, section)
<1>1. section.data \in Seq(Nat \X Nat)
  BY DEF MergedSection
<1>2. \A k \in 1 .. Len(section.data) : section.data[k] \in Nat \X Nat
  BY <1>1
<1> QED BY <1>1, <1>2, ChunkIs DEF Tiled, TiledIn, End, EndIn, SectionAt, In

(* Appending a chunk right behind the others keeps a section tiled, and    *)
(* changing the offset of a chunk that is not in it does, too.             *)
Untouched(old, objs, c) ==
  \A d \in Nat \X Nat : IsChunk(old, d) /\ d # c =>
    /\ IsChunk(objs, d)
    /\ In(objs, d).offset = In(old, d).offset
    /\ In(objs, d).size = In(old, d).size

LEMMA TilesAppended ==
  ASSUME NEW old, NEW objs, NEW c \in Nat \X Nat, IsChunk(objs, c),
         NEW section \in MergedSection, TiledIn(old, section),
         \A k \in 1 .. Len(section.data) : section.data[k] # c,
         Untouched(old, objs, c)
  PROVE  /\ TiledIn(objs, section)
         /\ In(objs, c).offset = section.size =>
              TiledIn(objs, [section EXCEPT !.size = @ + In(objs, c).size, !.data = Append(@, c)])
<1> DEFINE data == section.data
           size == In(objs, c).size
           longer == [section EXCEPT !.size = @ + size, !.data = Append(@, c)]
<1>1. /\ data \in Seq(Nat \X Nat)
      /\ longer.data = Append(data, c)
      /\ longer.size = section.size + size
  BY DEF MergedSection
<1>2. /\ \A k \in 1 .. Len(data) :
           /\ IsChunk(old, data[k])
           /\ In(old, data[k]).offset = IF k = 1 THEN 0 ELSE EndIn(old, data[k - 1])
           /\ data[k] # c
           /\ data[k] \in Nat \X Nat
      /\ section.size = IF data = <<>> THEN 0 ELSE EndIn(old, data[Len(data)])
  BY <1>1 DEF TiledIn
<1>3. /\ Len(data) \in Nat
      /\ data = <<>> <=> Len(data) = 0
  BY <1>1, LastElement
<1>4. /\ Append(data, c) # <<>>
      /\ Len(Append(data, c)) = Len(data) + 1
      /\ Append(data, c)[Len(data) + 1] = c
      /\ \A k \in 1 .. Len(data) : Append(data, c)[k] = data[k]
  BY <1>1, ElementAppended
<1> HIDE DEF data, longer
<1>5. \A k \in 1 .. Len(data) :
        /\ IsChunk(objs, data[k])
        /\ In(objs, data[k]).offset = In(old, data[k]).offset
        /\ EndIn(objs, data[k]) = EndIn(old, data[k])
  BY <1>2 DEF EndIn, Untouched
<1>6. /\ \A k \in 1 .. Len(data) : In(objs, data[k]).offset = IF k = 1 THEN 0 ELSE EndIn(objs, data[k - 1])
      /\ section.size = IF data = <<>> THEN 0 ELSE EndIn(objs, data[Len(data)])
  <2>1. \A k \in 1 .. Len(data) : k # 1 => k - 1 \in 1 .. Len(data)
    BY <1>3
  <2>2. ASSUME NEW k \in 1 .. Len(data)
        PROVE  In(objs, data[k]).offset = IF k = 1 THEN 0 ELSE EndIn(objs, data[k - 1])
    BY <1>2, <1>5, <2>1
  <2>3. data # <<>> => Len(data) \in 1 .. Len(data)
    BY <1>3
  <2>4. section.size = IF data = <<>> THEN 0 ELSE EndIn(objs, data[Len(data)])
    BY <1>2, <1>5, <2>3
  <2> QED BY <2>2, <2>4
<1>7. TiledIn(objs, section)
  BY <1>5, <1>6 DEF TiledIn, data
<1>8. ASSUME In(objs, c).offset = section.size
      PROVE  TiledIn(objs, longer)
  <2>1. longer.size = EndIn(objs, c)
    BY <1>1, <1>8 DEF EndIn
  <2>2. ASSUME NEW k \in 1 .. Len(data) + 1
        PROVE  /\ IsChunk(objs, longer.data[k])
               /\ In(objs, longer.data[k]).offset = IF k = 1 THEN 0 ELSE EndIn(objs, longer.data[k - 1])
    <3>1. CASE k \in 1 .. Len(data)
      BY <1>1, <1>3, <1>4, <1>5, <1>6, <3>1
    <3>2. CASE k = Len(data) + 1
      BY <1>1, <1>3, <1>4, <1>6, <1>8, <3>2
    <3> QED BY <1>3, <3>1, <3>2
  <2>3. Len(longer.data) = Len(data) + 1 /\ longer.data # <<>> /\ longer.data[Len(data) + 1] = c
    BY <1>1, <1>4, Zenon
  <2> QED BY <1>3, <2>1, <2>2, <2>3 DEF TiledIn
<1> QED BY <1>7, <1>8 DEF longer

-----------------------------------------------------------------------------
(* The merged section for a name is there, or a new and empty one.         *)
LEMMA TargetShape ==
  ASSUME merged_sections \in Seq(MergedSection), NamesDiffer(merged_sections),
         NEW name \in Names
  PROVE  LET W == WithTarget(name)
             t == Target(name)
         IN /\ W \in Seq(MergedSection)
            /\ t \in 1 .. Len(W) /\ W[t].name = name
            /\ NamesDiffer(W)
            /\ \A m \in 1 .. Len(merged_sections) : m \in 1 .. Len(W) /\ W[m] = merged_sections[m]
            /\ \A m \in 1 .. Len(W) : m \notin 1 .. Len(merged_sections) =>
                 W[m].data = <<>> /\ W[m].size = 0
            /\ Len(W) = IF Merged(name) = {} THEN Len(merged_sections) + 1 ELSE Len(merged_sections)
<1>1. CASE Merged(name) = {}
  <2> DEFINE new == [name |-> name, size |-> 0, data |-> <<>>]
             W == Append(merged_sections, new)
  <2>1. WithTarget(name) = W /\ Target(name) = Len(merged_sections) + 1
    BY <1>1 DEF WithTarget, Target
  <2>2. /\ new \in MergedSection
        /\ new.name = name /\ new.data = <<>> /\ new.size = 0
    BY DEF MergedSection
  <2>3. \A m \in 1 .. Len(merged_sections) : merged_sections[m].name # name
    BY <1>1 DEF Merged
  <2> HIDE DEF new
  <2>4. /\ W \in Seq(MergedSection)
        /\ Len(W) = Len(merged_sections) + 1
        /\ W[Len(merged_sections) + 1] = new
        /\ \A m \in 1 .. Len(merged_sections) : W[m] = merged_sections[m]
    BY <2>2, ElementAppended
  <2>5. Len(merged_sections) \in Nat
    BY LastElement
  <2> HIDE DEF W
  <2>6. NamesDiffer(W)
    BY <2>2, <2>3, <2>4, <2>5 DEF NamesDiffer
  <2> QED BY <1>1, <2>1, <2>2, <2>4, <2>5, <2>6
<1>2. CASE Merged(name) # {}
  <2>1. Merged(name) \subseteq Nat
    BY DEF Merged
  <2>2. FirstOf(Merged(name)) \in Merged(name)
    BY <1>2, <2>1, LeastExists
  <2> QED BY <1>2, <2>2 DEF WithTarget, Target, Merged
<1> QED BY <1>1, <1>2

(* Where link is, while there is an input section left to be merged.       *)
LEMMA InputIsChunk ==
  ASSUME LinkInv, phase = "merge", input[1] <= Len(objects)
  PROVE  /\ input \in Nat \X Nat /\ IsChunk(objects, input)
         /\ SectionAt(input) = In(objects, input)
         /\ In(objects, input) \in Section
<1>1. Len(objects) \in Nat /\ objects \in Seq(Object)
  BY LastElement DEF LinkInv, LinkerTypeOK
<1>2. input \in Chunks
  BY <1>1 DEF LinkInv, LinkerTypeOK
<1>3. input \in Nat \X Nat /\ IsChunk(objects, input)
  BY <1>2, ChunkIs
<1>4. objects[input[1]] \in Object
  BY <1>1, <1>3 DEF IsChunk
<1>5. objects[input[1]].sections \in Seq(Section)
  BY <1>4 DEF Object
<1> QED BY <1>3, <1>5 DEF SectionAt, In, IsChunk

(* Setting the offset of the input section to where its merged section     *)
(* ends changes nothing else that the invariant speaks of.                 *)
LEMMA OffsetStep ==
  ASSUME LinkInv, phase = "merge", input[1] <= Len(objects),
         OffsetSet(Target(SectionAt(input).name))
  PROVE  LET W == WithTarget(SectionAt(input).name)
             t == Target(SectionAt(input).name)
         IN /\ objects' \in Seq(Object) /\ Len(objects') = Len(objects)
            /\ ObjectsOK(objects')
            /\ entry_symbol' = entry_symbol => (EntryFound' <=> EntryFound)
            /\ \A d \in Nat \X Nat : IsChunk(objects', d) <=> IsChunk(objects, d)
            /\ \A d \in Nat \X Nat : IsChunk(objects, d) =>
                 /\ In(objects', d).name = In(objects, d).name
                 /\ In(objects', d).size = In(objects, d).size
                 /\ d # input => In(objects', d).offset = In(objects, d).offset
            /\ In(objects', input).offset = W[t].size
            /\ \A m \in 1 .. Len(W) :
                 TiledIn(objects, W[m]) /\ \A k \in 1 .. Len(W[m].data) : Before(W[m].data[k], input)
<1> DEFINE name == SectionAt(input).name
           W == WithTarget(name)
           t == Target(name)
           v == W[t].size
<1>1. /\ input \in Nat \X Nat /\ IsChunk(objects, input)
      /\ SectionAt(input) = In(objects, input)
      /\ name \in Names
  BY InputIsChunk DEF Section
<1>2. objects \in Seq(Object) /\ merged_sections \in Seq(MergedSection)
  BY DEF LinkInv, LinkerTypeOK
<1>3. /\ W \in Seq(MergedSection) /\ t \in 1 .. Len(W)
      /\ \A m \in 1 .. Len(merged_sections) : W[m] = merged_sections[m]
      /\ \A m \in 1 .. Len(W) : m \notin 1 .. Len(merged_sections) => W[m].data = <<>> /\ W[m].size = 0
  BY <1>1, <1>2, TargetShape DEF LinkInv
<1>4. v \in Nat
  <2>1. W[t] \in MergedSection
    BY <1>3
  <2> QED BY <2>1 DEF MergedSection
<1>5. objects' = [objects EXCEPT ![input[1]].sections[input[2]].offset = v]
  BY DEF OffsetSet
<1>6. \A m \in 1 .. Len(W) :
        TiledIn(objects, W[m]) /\ \A k \in 1 .. Len(W[m].data) : Before(W[m].data[k], input)
  <2>1. TAKE m \in 1 .. Len(W)
  <2>2. CASE m \in 1 .. Len(merged_sections)
    BY <1>3, <2>2 DEF LinkInv, Merging, MergedBefore
  <2>3. CASE m \notin 1 .. Len(merged_sections)
    <3>1. W[m].data = <<>> /\ W[m].size = 0 /\ Len(<<>>) = 0
      BY <1>3, <2>1, <2>3
    <3> QED BY <3>1 DEF TiledIn
  <2> QED BY <2>2, <2>3
<1> HIDE DEF v, W, t, name
<1>7. input[1] \in 1 .. Len(objects) /\ input[2] \in 1 .. Len(objects[input[1]].sections)
  BY <1>1 DEF IsChunk
<1>8. /\ objects' \in Seq(Object) /\ Len(objects') = Len(objects)
      /\ \A j \in 1 .. Len(objects) :
           /\ objects'[j].symbols = objects[j].symbols
           /\ Len(objects'[j].sections) = Len(objects[j].sections)
           /\ \A s \in 1 .. Len(objects[j].sections) :
                /\ objects'[j].sections[s].name = objects[j].sections[s].name
                /\ objects'[j].sections[s].size = objects[j].sections[s].size
                /\ objects'[j].sections[s].offset =
                     IF j = input[1] /\ s = input[2] THEN v ELSE objects[j].sections[s].offset
  BY <1>2, <1>4, <1>5, <1>7, ObjectsUpdate
<1>9. ObjectsOK(objects')
  BY <1>8 DEF ObjectsOK, LinkInv
<1>10. ASSUME entry_symbol' = entry_symbol
       PROVE  EntryFound' <=> EntryFound
  <2>1. \A j \in 1 .. Len(objects) : Defined(objects'[j], entry_symbol') <=> Defined(objects[j], entry_symbol)
    BY <1>8, <1>10 DEF Defined
  <2>2. EntryFound' <=> \E j \in 1 .. Len(objects') : Defined(objects'[j], entry_symbol')
    BY DEF EntryFound
  <2> QED BY <1>8, <2>1, <2>2 DEF EntryFound
<1>11. \A d \in Nat \X Nat : IsChunk(objects', d) <=> IsChunk(objects, d)
  BY <1>8 DEF IsChunk
<1>12. \A d \in Nat \X Nat : IsChunk(objects, d) =>
         /\ In(objects', d).name = In(objects, d).name
         /\ In(objects', d).size = In(objects, d).size
         /\ d # input => In(objects', d).offset = In(objects, d).offset
  <2> TAKE d \in Nat \X Nat
  <2>1. d # input => d[1] # input[1] \/ d[2] # input[2]
    BY <1>1
  <2> QED BY <1>8, <2>1 DEF IsChunk, In
<1>13. In(objects', input).offset = v
  BY <1>7, <1>8 DEF In
<1> QED BY <1>6, <1>8, <1>9, <1>10, <1>11, <1>12, <1>13 DEF v, W, t, name

-----------------------------------------------------------------------------
(* The section link goes to next is one of an object, or past the last.    *)
Following(objs, c) ==
  IF c[2] < Len(objs[c[1]].sections) THEN <<c[1], c[2] + 1>> ELSE <<c[1] + 1, 1>>

LEMMA NextIsChunk ==
  ASSUME NEW objs, Len(objs) \in Nat, ObjectsOK(objs), \A i \in 1 .. Len(objs) : Len(objs[i].sections) \in Nat,
         NEW c \in Nat \X Nat, IsChunk(objs, c), NEW next, next = Following(objs, c)
  PROVE  /\ next \in Nat \X Nat
         /\ IsChunk(objs, next) \/ next = <<Len(objs) + 1, 1>>
         /\ Before(c, next)
         /\ \A d \in Nat \X Nat : Before(d, c) => Before(d, next)
         /\ \A d \in Nat \X Nat : IsChunk(objs, d) /\ Before(d, next) => d = c \/ Before(d, c)
<1>1. CASE c[2] < Len(objs[c[1]].sections)
  <2>1. next[1] = c[1] /\ next[2] = c[2] + 1 /\ next \in Nat \X Nat
    BY <1>1 DEF Following
  <2>2. /\ c[1] \in 1 .. Len(objs) /\ c[2] \in 1 .. Len(objs[c[1]].sections)
        /\ c = <<c[1], c[2]>> /\ Len(objs[c[1]].sections) \in Nat
    BY DEF IsChunk
  <2>3. IsChunk(objs, next)
    BY <1>1, <2>1, <2>2 DEF IsChunk
  <2>4. Before(c, next)
    BY <2>1, <2>2 DEF Before
  <2>5. \A d \in Nat \X Nat : Before(d, c) => Before(d, next)
    BY <2>1, <2>2 DEF Before
  <2>6. ASSUME NEW d \in Nat \X Nat, Before(d, next)
        PROVE  d = c \/ Before(d, c)
    <3>1. d = <<d[1], d[2]>> /\ d[1] \in Nat /\ d[2] \in Nat
      BY <2>6
    <3>2. d[1] < c[1] \/ (d[1] = c[1] /\ d[2] < c[2]) \/ (d[1] = c[1] /\ d[2] = c[2])
      BY <2>1, <2>2, <2>6, <3>1 DEF Before
    <3> QED BY <2>2, <3>1, <3>2 DEF Before
  <2> QED BY <2>1, <2>3, <2>4, <2>5, <2>6
<1>2. CASE ~(c[2] < Len(objs[c[1]].sections))
  <2>1. next = <<c[1] + 1, 1>>
    BY <1>2 DEF Following
  <2>2. /\ c[1] \in 1 .. Len(objs) /\ c[2] = Len(objs[c[1]].sections)
        /\ c = <<c[1], c[2]>>
    BY <1>2 DEF IsChunk
  <2>3. next[1] = c[1] + 1 /\ next[2] = 1 /\ next \in Nat \X Nat
    BY <2>1
  <2>4. IsChunk(objs, next) \/ next = <<Len(objs) + 1, 1>>
    <3>1. CASE c[1] = Len(objs)
      BY <2>1, <3>1
    <3>2. CASE c[1] + 1 \in 1 .. Len(objs)
      BY <2>3, <3>2 DEF IsChunk, ObjectsOK
    <3> QED BY <2>2, <3>1, <3>2
  <2>5. Before(c, next)
    BY <2>2, <2>3 DEF Before
  <2>6. \A d \in Nat \X Nat : Before(d, c) => Before(d, next)
    BY <2>2, <2>3 DEF Before
  <2>7. ASSUME NEW d \in Nat \X Nat, IsChunk(objs, d), Before(d, next)
        PROVE  d = c \/ Before(d, c)
    <3>1. d = <<d[1], d[2]>> /\ d[1] \in Nat /\ d[2] \in Nat
      BY <2>7
    <3>2. /\ d[1] \in 1 .. Len(objs) /\ d[2] \in 1 .. Len(objs[d[1]].sections)
      BY <2>7 DEF IsChunk
    <3>3. d[1] < c[1] \/ d[1] = c[1]
      BY <2>2, <2>3, <2>7, <3>1, <3>2 DEF Before
    <3>4. CASE d[1] < c[1]
      BY <3>4 DEF Before
    <3>5. CASE d[1] = c[1]
      BY <2>2, <3>1, <3>2, <3>5 DEF Before
    <3> QED BY <3>3, <3>4, <3>5
  <2> QED BY <2>3, <2>4, <2>5, <2>6, <2>7
<1> QED BY <1>1, <1>2

LEMMA SectionLonger ==
  ASSUME NEW section \in MergedSection, NEW c \in Nat \X Nat, NEW size \in Nat
  PROVE  LET longer == [section EXCEPT !.size = @ + size, !.data = Append(@, c)]
         IN /\ longer \in MergedSection
            /\ longer.name = section.name
            /\ longer.data = Append(section.data, c)
            /\ section.data \in Seq(Nat \X Nat)
<1>1. section.data \in Seq(Nat \X Nat)
  BY DEF MergedSection
<1>2. Append(section.data, c) \in Seq(Nat \X Nat)
  BY <1>1, ElementAppended
<1> DEFINE data == Append(section.data, c)
           total == section.size + size
           longer == [section EXCEPT !.size = total, !.data = data]
<1>3. total \in Nat /\ data \in Seq(Nat \X Nat)
  BY <1>2 DEF MergedSection
<1>4. [section EXCEPT !.size = @ + size, !.data = Append(@, c)] = longer
  OBVIOUS
<1> HIDE DEF data, total
<1>5. longer \in MergedSection /\ longer.name = section.name /\ longer.data = data
  BY <1>3 DEF MergedSection
<1> QED BY <1>1, <1>4, <1>5 DEF data

LEMMA MergeStep ==
  ASSUME LinkInv, merge_sections
  PROVE  LinkInv'
<1> DEFINE name == SectionAt(input).name
           W == WithTarget(name)
           t == Target(name)
           longer == [W[t] EXCEPT !.size = @ + SectionAt(input).size, !.data = Append(@, input)]
<1>1. /\ phase = "merge" /\ phase' = "merge" /\ input[1] <= Len(objects)
      /\ OffsetSet(t)
      /\ input' = NextInput
      /\ merged_sections' = [W EXCEPT ![t] = longer]
      /\ UNCHANGED <<output_format, entry_symbol, entry_address, addresses, current_address>>
      /\ ~TooMany
  BY DEF merge_sections, AppendSection
<1>2. /\ input \in Nat \X Nat /\ IsChunk(objects, input)
      /\ SectionAt(input) = In(objects, input)
      /\ name \in Names /\ SectionAt(input).size \in Nat
  BY <1>1, InputIsChunk DEF Section
<1>3. objects \in Seq(Object) /\ merged_sections \in Seq(MergedSection)
  BY DEF LinkInv, LinkerTypeOK
<1>4. /\ W \in Seq(MergedSection) /\ t \in 1 .. Len(W) /\ W[t].name = name
      /\ NamesDiffer(W)
      /\ \A m \in 1 .. Len(merged_sections) : m \in 1 .. Len(W) /\ W[m] = merged_sections[m]
      /\ Len(W) = IF Merged(name) = {} THEN Len(merged_sections) + 1 ELSE Len(merged_sections)
  BY <1>2, <1>3, TargetShape DEF LinkInv
<1>5. /\ objects' \in Seq(Object) /\ Len(objects') = Len(objects)
      /\ ObjectsOK(objects')
      /\ entry_symbol' = entry_symbol => (EntryFound' <=> EntryFound)
      /\ \A d \in Nat \X Nat : IsChunk(objects', d) <=> IsChunk(objects, d)
      /\ \A d \in Nat \X Nat : IsChunk(objects, d) =>
           /\ In(objects', d).name = In(objects, d).name
           /\ In(objects', d).size = In(objects, d).size
           /\ d # input => In(objects', d).offset = In(objects, d).offset
      /\ In(objects', input).offset = W[t].size
      /\ \A m \in 1 .. Len(W) :
           TiledIn(objects, W[m]) /\ \A k \in 1 .. Len(W[m].data) : Before(W[m].data[k], input)
  BY <1>1, OffsetStep
<1>6. /\ W[t] \in MergedSection
      /\ longer \in MergedSection
      /\ longer.name = name
      /\ longer.data = Append(W[t].data, input)
      /\ W[t].data \in Seq(Nat \X Nat)
  <2>1. W[t] \in MergedSection
    BY <1>4
  <2> DEFINE size == SectionAt(input).size
  <2>2. size \in Nat /\ longer = [W[t] EXCEPT !.size = @ + size, !.data = Append(@, input)]
    BY <1>2
  <2> HIDE DEF W, t, name, size, longer
  <2>3. /\ [W[t] EXCEPT !.size = @ + size, !.data = Append(@, input)] \in MergedSection
        /\ [W[t] EXCEPT !.size = @ + size, !.data = Append(@, input)].name = W[t].name
        /\ [W[t] EXCEPT !.size = @ + size, !.data = Append(@, input)].data = Append(W[t].data, input)
        /\ W[t].data \in Seq(Nat \X Nat)
    BY <1>2, <2>1, <2>2, SectionLonger
  <2> QED BY <1>4, <2>1, <2>2, <2>3
<1>7. longer = [W[t] EXCEPT !.size = @ + In(objects', input).size, !.data = Append(@, input)]
  BY <1>2, <1>5
<1> HIDE DEF longer, W, t, name
<1>8. /\ merged_sections' \in Seq(MergedSection) /\ Len(merged_sections') = Len(W)
      /\ \A m \in 1 .. Len(W) : merged_sections'[m] = IF m = t THEN longer ELSE W[m]
  BY <1>1, <1>4, <1>6, ElementReplaced
<1>9. /\ longer.data # <<>> /\ Len(longer.data) = Len(W[t].data) + 1
      /\ longer.data[Len(W[t].data) + 1] = input
      /\ \A k \in 1 .. Len(W[t].data) : longer.data[k] = W[t].data[k]
      /\ Len(W[t].data) \in Nat
  <2> DEFINE q == W[t].data
  <2>1. q \in Seq(Nat \X Nat) /\ longer.data = Append(q, input)
    BY <1>6
  <2>2. Len(q) \in Nat
    BY <2>1, LastElement
  <2> HIDE DEF q
  <2>3. /\ Append(q, input) # <<>> /\ Len(Append(q, input)) = Len(q) + 1
        /\ Append(q, input)[Len(q) + 1] = input
        /\ \A k \in 1 .. Len(q) : Append(q, input)[k] = q[k]
    BY <1>2, <2>1, ElementAppended
  <2> QED BY <2>1, <2>2, <2>3 DEF q
<1>8a. /\ Len(merged_sections') = Len(W)
       /\ \A m \in 1 .. Len(W) : merged_sections'[m].name = W[m].name
       /\ \A m \in 1 .. Len(W) : m # t => merged_sections'[m].data = W[m].data
       /\ merged_sections'[t].data = longer.data
       /\ Len(W) \in Nat
  BY <1>4, <1>6, <1>8, LastElement
<1>10. /\ input' \in Nat \X Nat
       /\ IsChunk(objects, input') \/ input' = <<Len(objects) + 1, 1>>
       /\ Before(input, input')
       /\ \A d \in Nat \X Nat : Before(d, input) => Before(d, input')
       /\ \A d \in Nat \X Nat : IsChunk(objects, d) /\ Before(d, input') => d = input \/ Before(d, input)
  <2>1. \A i \in 1 .. Len(objects) : Len(objects[i].sections) \in Nat
    <3> TAKE i \in 1 .. Len(objects)
    <3>1. objects[i] \in Object
      BY <1>3
    <3>2. objects[i].sections \in Seq(Section)
      BY <3>1 DEF Object
    <3> QED BY <3>2, LastElement
  <2>2. Len(objects) \in Nat
    BY <1>3, LastElement
  <2>3. input' = Following(objects, input)
    BY <1>1 DEF NextInput, Following
  <2>4. ObjectsOK(objects) /\ input \in Nat \X Nat /\ IsChunk(objects, input)
    BY <1>2 DEF LinkInv
  <2> QED BY <2>1, <2>2, <2>3, <2>4, NextIsChunk, Zenon
<1>11. LinkerTypeOK'
  <2>1. Len(merged_sections') <= MaxSections
    BY <1>1, <1>4, <1>8, <1>3, MaximaAssumption, LastElement DEF LinkInv, LinkerTypeOK, TooMany, name
  <2>2. input' \in Chunks' \union {<<Len(objects') + 1, 1>>}
    <3>1. input' \in Chunks' <=> input' \in Nat \X Nat /\ IsChunk(objects', input')
      BY DEF Chunks, ChunksOf, IsChunk
    <3> QED BY <1>5, <1>10, <3>1
  <2> QED BY <1>1, <1>5, <1>8, <2>1, <2>2 DEF LinkInv, LinkerTypeOK
<1>12. \A m \in 1 .. Len(merged_sections') : TiledIn(objects', merged_sections'[m])
  <2> TAKE m \in 1 .. Len(merged_sections')
  <2>1. W[m] \in MergedSection /\ m \in 1 .. Len(W)
    BY <1>4, <1>8
  <2>2. \A k \in 1 .. Len(W[m].data) : W[m].data[k] # input
    <3>1. ~Before(input, input)
      BY <1>2 DEF Before
    <3> QED BY <1>5, <2>1, <3>1
  <2>3. /\ TiledIn(objects', W[m])
        /\ In(objects', input).offset = W[m].size =>
             TiledIn(objects', [W[m] EXCEPT !.size = @ + In(objects', input).size, !.data = Append(@, input)])
    <3>1. TiledIn(objects, W[m]) /\ IsChunk(objects', input)
      BY <1>2, <1>5, <2>1
    <3>2. Untouched(objects, objects', input)
      BY <1>5 DEF Untouched
    <3> HIDE DEF W
    <3> QED BY <1>2, <2>1, <2>2, <3>1, <3>2, TilesAppended
  <2> QED BY <1>5, <1>7, <1>8, <2>1, <2>3
<1>13. NamesDiffer(merged_sections')
  BY <1>4, <1>8a DEF NamesDiffer
<1>14. MergedBefore(merged_sections', input')
  <2> SUFFICES ASSUME NEW m \in 1 .. Len(merged_sections'), NEW k \in 1 .. Len(merged_sections'[m].data)
               PROVE  Before(merged_sections'[m].data[k], input')
    BY DEF MergedBefore
  <2>1. m \in 1 .. Len(W) /\ W[m] \in MergedSection
    BY <1>4, <1>8
  <2>2. \A j \in 1 .. Len(W[m].data) : W[m].data[j] \in Nat \X Nat
    BY <2>1 DEF MergedSection
  <2>3. \A j \in 1 .. Len(W[m].data) : Before(W[m].data[j], input')
    BY <1>5, <1>10, <2>1, <2>2
  <2>4. CASE m # t
    BY <1>8a, <2>1, <2>3, <2>4
  <2>5. CASE m = t
    <3>1. k \in 1 .. Len(W[t].data) + 1 /\ merged_sections'[m].data = longer.data
      BY <1>8a, <1>9, <2>1, <2>5
    <3>4. k \in 1 .. Len(W[t].data) \/ k = Len(W[t].data) + 1
      <4>1. Len(W[t].data) \in Nat
        BY <1>9
      <4> QED BY <3>1, <4>1
    <3>2. CASE k \in 1 .. Len(W[t].data)
      BY <1>9, <2>3, <2>5, <3>1, <3>2
    <3>3. CASE k = Len(W[t].data) + 1
      BY <1>9, <1>10, <3>1, <3>3
    <3> QED BY <3>2, <3>3, <3>4
  <2> QED BY <2>4, <2>5
<1>15. AllPlaced'
  <2> SUFFICES ASSUME NEW c \in Nat \X Nat, IsChunk(objects', c), Before(c, input')
               PROVE  PlacedIn(merged_sections', c, In(objects', c).name)
    BY <1>1 DEF AllPlaced
  <2>1. In(objects', c).name = In(objects, c).name /\ IsChunk(objects, c)
    BY <1>5
  <2>2. CASE c = input
    <3>1. merged_sections'[t].name = name /\ In(objects, c).name = name
      BY <1>2, <1>4, <1>6, <1>8, <2>2 DEF name
    <3>2. Len(W[t].data) + 1 \in 1 .. Len(merged_sections'[t].data)
          /\ merged_sections'[t].data[Len(W[t].data) + 1] = c
      BY <1>8a, <1>9, <2>2
    <3> QED BY <1>4, <1>8, <2>1, <3>1, <3>2 DEF PlacedIn
  <2>3. CASE Before(c, input)
    <3>1. PICK m \in 1 .. Len(merged_sections) :
            merged_sections[m].name = In(objects, c).name
            /\ \E k \in 1 .. Len(merged_sections[m].data) : merged_sections[m].data[k] = c
      BY <1>1, <2>1, <2>3 DEF LinkInv, AllPlaced, PlacedIn, Merging
    <3>2. PICK k \in 1 .. Len(merged_sections[m].data) : merged_sections[m].data[k] = c
      BY <3>1
    <3>3. m \in 1 .. Len(W) /\ W[m] = merged_sections[m]
      BY <1>4
    <3>4. /\ merged_sections'[m].name = In(objects, c).name
          /\ k \in 1 .. Len(merged_sections'[m].data)
          /\ merged_sections'[m].data[k] = c
      <4>1. CASE m # t
        BY <1>8a, <3>1, <3>2, <3>3, <4>1
      <4>2. CASE m = t
        <5>1. k \in 1 .. Len(W[t].data) /\ W[t].data[k] = c /\ merged_sections'[m].data = longer.data
          BY <1>8a, <3>1, <3>2, <3>3, <4>2
        <5>2. k \in 1 .. Len(longer.data) /\ longer.data[k] = c
          <6>1. longer.data[k] = W[t].data[k]
            BY <1>9, <5>1
          <6>2. Len(longer.data) = Len(W[t].data) + 1 /\ Len(W[t].data) \in Nat
            BY <1>9
          <6>3. k \in 1 .. Len(longer.data)
            BY <5>1, <6>2
          <6> QED BY <5>1, <6>1, <6>3
        <5> QED BY <1>8a, <3>1, <3>3, <5>1, <5>2
      <4> QED BY <4>1, <4>2
    <3> QED BY <1>8, <2>1, <3>3, <3>4 DEF PlacedIn
  <2> QED BY <1>10, <2>1, <2>2, <2>3
<1>16. SectionsDisjoint' /\ EntryAtSymbol' /\ ~Laying'
  BY <1>1 DEF SectionsDisjoint, EntryAtSymbol, Laying
<1>17. EntryFound' => entry_address' = Placeholder
  BY <1>1, <1>5 DEF LinkInv
<1> QED BY <1>5, <1>11, <1>12, <1>13, <1>14, <1>15, <1>16, <1>17 DEF LinkInv

-----------------------------------------------------------------------------
(* Outside of link, only what objects and merged sections are matters.     *)
LEMMA NotLinking ==
  ASSUME phase' = "idle", LinkerTypeOK', ObjectsOK(objects'), NamesDiffer(merged_sections'),
         \A m \in 1 .. Len(merged_sections') : TiledIn(objects', merged_sections'[m])
  PROVE  LinkInv'
BY DEF LinkInv, Merging, Laying, SectionsDisjoint, EntryAtSymbol

LEMMA MergeFailsStep ==
  ASSUME LinkInv, MergeFails
  PROVE  LinkInv'
<1>1. /\ phase = "merge" /\ phase' = "idle" /\ input[1] <= Len(objects)
      /\ UNCHANGED <<output_format, entry_symbol, entry_address, addresses, input, current_address>>
  BY DEF MergeFails
<1>2. CASE TooMany
  BY <1>1, <1>2, NotLinking DEF MergeFails, LinkInv, LinkerTypeOK
<1>3. CASE ~TooMany
  <2> DEFINE name == SectionAt(input).name
             W == WithTarget(name)
  <2>1. OffsetSet(Target(name)) /\ merged_sections' = W
    BY <1>3 DEF MergeFails
  <2>2. input \in Nat \X Nat /\ IsChunk(objects, input) /\ name \in Names
    BY <1>1, InputIsChunk DEF Section
  <2>3. objects \in Seq(Object) /\ merged_sections \in Seq(MergedSection)
    BY DEF LinkInv, LinkerTypeOK
  <2>4. /\ W \in Seq(MergedSection) /\ NamesDiffer(W)
        /\ Len(W) = IF Merged(name) = {} THEN Len(merged_sections) + 1 ELSE Len(merged_sections)
    BY <2>2, <2>3, TargetShape DEF LinkInv
  <2>5. /\ objects' \in Seq(Object) /\ Len(objects') = Len(objects) /\ ObjectsOK(objects')
        /\ \A d \in Nat \X Nat : IsChunk(objects', d) <=> IsChunk(objects, d)
        /\ \A d \in Nat \X Nat : IsChunk(objects, d) =>
             /\ In(objects', d).size = In(objects, d).size
             /\ d # input => In(objects', d).offset = In(objects, d).offset
        /\ \A m \in 1 .. Len(W) :
             TiledIn(objects, W[m]) /\ \A k \in 1 .. Len(W[m].data) : Before(W[m].data[k], input)
    BY <1>1, <2>1, OffsetStep
  <2>6. Len(W) <= MaxSections
    BY <1>3, <2>3, <2>4, MaximaAssumption, LastElement DEF LinkInv, LinkerTypeOK, TooMany
  <2> HIDE DEF W, name
  <2>7. ASSUME NEW m \in 1 .. Len(W)
        PROVE  TiledIn(objects', W[m])
    <3>1. W[m] \in MergedSection
      BY <2>4
    <3>2. \A k \in 1 .. Len(W[m].data) : W[m].data[k] # input
      <4>1. ~Before(input, input)
        BY <2>2 DEF Before
      <4> QED BY <2>5, <4>1
    <3>3. TiledIn(objects, W[m]) /\ IsChunk(objects', input)
      BY <2>2, <2>5
    <3>4. Untouched(objects, objects', input)
      BY <2>5 DEF Untouched
    <3> QED BY <2>2, <3>1, <3>2, <3>3, <3>4, TilesAppended
  <2>8. LinkerTypeOK'
    BY <1>1, <2>1, <2>4, <2>5, <2>6 DEF LinkInv, LinkerTypeOK
  <2> QED BY <1>1, <2>1, <2>4, <2>5, <2>7, <2>8, NotLinking
<1> QED BY <1>2, <1>3

(* When the last input section was merged, all of them are in front.       *)
LEMMA MergeEndsStep ==
  ASSUME LinkInv, MergeEnds
  PROVE  LinkInv'
<1>1. /\ phase = "merge" /\ phase' = "layout" /\ input[1] > Len(objects)
      /\ addresses' = <<>> /\ current_address' = Base
      /\ UNCHANGED <<inputs, entry_address, merged_sections, input>>
  BY DEF MergeEnds
<1>2. LinkerTypeOK'
  BY <1>1 DEF LinkInv, LinkerTypeOK, inputs, Base
<1>3. Len(objects) \in Nat
  BY LastElement DEF LinkInv, LinkerTypeOK
<1>4. input[1] \in Nat
  BY <1>1, <1>3 DEF LinkInv, LinkerTypeOK, Chunks, ChunksOf
<1>5. \A c \in Nat \X Nat : IsChunk(objects, c) => Before(c, input)
  BY <1>1, <1>3, <1>4 DEF IsChunk, Before
<1>6. AllPlaced'
  BY <1>1, <1>5 DEF LinkInv, AllPlaced, inputs, Merging
<1>7. LaidOut' /\ SectionsDisjoint'
  BY <1>1 DEF LaidOut, SectionsDisjoint, Base
<1>8. EntryFound' <=> EntryFound
  BY <1>1 DEF EntryFound, Defined, inputs
<1> QED BY <1>1, <1>2, <1>6, <1>7, <1>8
        DEF LinkInv, Merging, Laying, EntryAtSymbol, inputs

LEMMA ResolveStep ==
  ASSUME LinkInv, resolve_symbols
  PROVE  LinkInv'
<1>1. /\ phase' = "merge" /\ input' = <<1, 1>> /\ merged_sections' = <<>>
      /\ Len(objects) > 0
      /\ entry_address' = IF EntryFound THEN Placeholder ELSE entry_address
      /\ UNCHANGED <<inputs, addresses, current_address>>
  BY DEF resolve_symbols
<1>2. objects \in Seq(Object) /\ objects' = objects /\ Len(objects) \in Nat
  BY <1>1, LastElement DEF LinkInv, LinkerTypeOK, inputs
<1>3. <<1, 1>> \in Chunks
  <2>1. objects[1] \in Object /\ 1 \in 1 .. Len(objects)
    BY <1>1, <1>2
  <2>2. objects[1].sections \in Seq(Section)
    BY <2>1 DEF Object
  <2>3. Len(objects[1].sections) \in Nat /\ Len(objects[1].sections) > 0
    BY <2>1, <2>2, LastElement DEF LinkInv, ObjectsOK
  <2> QED BY <2>1, <2>3 DEF Chunks, ChunksOf
<1>4. LinkerTypeOK'
  <2>1. Chunks' = Chunks
    BY <1>2 DEF Chunks, ChunksOf
  <2>2. entry_address' \in Nat \union {Placeholder}
    BY <1>1 DEF LinkInv, LinkerTypeOK
  <2>3. <<>> \in Seq(MergedSection) /\ Len(<<>>) = 0 /\ 0 <= MaxSections
    BY MaximaAssumption
  <2> QED BY <1>1, <1>2, <1>3, <2>1, <2>2, <2>3 DEF LinkInv, LinkerTypeOK, inputs
<1>5. AllPlaced'
  <2>1. \A c \in Nat \X Nat : IsChunk(objects, c) => ~Before(c, <<1, 1>>)
    BY <1>2 DEF IsChunk, Before
  <2> QED BY <1>1, <1>2, <2>1 DEF AllPlaced
<1>6. EntryFound' <=> EntryFound
  BY <1>1 DEF EntryFound, Defined, inputs
<1>7. MergedBefore(merged_sections', input') /\ NamesDiffer(merged_sections')
      /\ \A m \in 1 .. Len(merged_sections') : TiledIn(objects', merged_sections'[m])
  BY <1>1 DEF MergedBefore, NamesDiffer
<1> QED BY <1>1, <1>2, <1>4, <1>5, <1>6, <1>7
        DEF LinkInv, Merging, Laying, SectionsDisjoint, EntryAtSymbol

-----------------------------------------------------------------------------
LEMMA AlignedUp ==
  ASSUME NEW a \in Nat
  PROVE  Aligned(a) \in Nat /\ Aligned(a) >= a /\ Aligned(a) % 16 = 0
BY DEF Aligned

LEMMA LayoutStep ==
  ASSUME LinkInv, layout_sections
  PROVE  LinkInv'
<1> DEFINE n == Len(addresses)
           size == merged_sections[n + 1].size
<1>1. /\ phase = "layout" /\ phase' = "layout" /\ n < Len(merged_sections)
      /\ addresses' = Append(addresses, current_address)
      /\ current_address' = Aligned(current_address + size)
      /\ UNCHANGED <<inputs, entry_address, merged_sections, input>>
  BY DEF layout_sections
<1>2. /\ addresses \in Seq(Nat) /\ current_address \in Nat /\ n \in Nat
      /\ merged_sections \in Seq(MergedSection) /\ Len(merged_sections) \in Nat
  BY LastElement DEF LinkInv, LinkerTypeOK
<1>3. \A m \in 1 .. Len(merged_sections) : merged_sections[m].size \in Nat
  <2> TAKE m \in 1 .. Len(merged_sections)
  <2>1. merged_sections[m] \in MergedSection
    BY <1>2
  <2> QED BY <2>1 DEF MergedSection
<1>4. size \in Nat
  BY <1>1, <1>2, <1>3
<1>5. /\ current_address' \in Nat /\ current_address' >= current_address + size
      /\ current_address' % 16 = 0
  <2>1. current_address + size \in Nat
    BY <1>2, <1>4
  <2>2. current_address' = Aligned(current_address + size)
    BY <1>1
  <2> HIDE DEF size
  <2> QED BY <2>1, <2>2, AlignedUp
<1>6. /\ addresses' \in Seq(Nat) /\ Len(addresses') = n + 1
      /\ addresses'[n + 1] = current_address
      /\ \A m \in 1 .. n : addresses'[m] = addresses[m]
  BY <1>1, <1>2, ElementAppended
<1>7. /\ current_address >= Base /\ current_address % 16 = 0
      /\ \A m \in 1 .. n : addresses[m] + merged_sections[m].size <= current_address
  BY <1>1 DEF LinkInv, Laying, LaidOut
<1>8. \A m \in 1 .. n :
        /\ addresses[m] >= Base /\ addresses[m] % 16 = 0
        /\ \A k \in 1 .. n : m < k => addresses[m] + merged_sections[m].size <= addresses[k]
  BY <1>1 DEF LinkInv, SectionsDisjoint
<1>9. merged_sections' = merged_sections
  BY <1>1
<1> HIDE DEF n
<1>10. LaidOut'
  <2>1. ASSUME NEW m \in 1 .. n
        PROVE  addresses'[m] + merged_sections[m].size <= current_address'
    <3>1. addresses'[m] + merged_sections[m].size <= current_address
      BY <1>6, <1>7
    <3>2. addresses'[m] \in Nat
      <4>1. m \in 1 .. Len(addresses')
        BY <1>2, <1>6
      <4> QED BY <1>6, <4>1
    <3>3. merged_sections[m].size \in Nat
      <4>1. m \in 1 .. Len(merged_sections)
        BY <1>1, <1>2
      <4> QED BY <1>3, <4>1
    <3>4. current_address <= current_address'
      BY <1>2, <1>4, <1>5
    <3> QED BY <1>2, <1>5, <3>1, <3>2, <3>3, <3>4
  <2>2. addresses'[n + 1] + merged_sections[n + 1].size <= current_address'
    BY <1>5, <1>6
  <2>3. current_address' >= Base
    BY <1>2, <1>4, <1>5, <1>7 DEF Base
  <2>4. ASSUME NEW m \in 1 .. n + 1
        PROVE  addresses'[m] + merged_sections[m].size <= current_address'
    <3>1. m = n + 1 \/ m \in 1 .. n
      BY <1>2
    <3> QED BY <2>1, <2>2, <3>1
  <2> QED BY <1>5, <1>6, <1>9, <2>3, <2>4 DEF LaidOut
<1>11. SectionsDisjoint'
  <2> SUFFICES ASSUME NEW m \in 1 .. n + 1
               PROVE  /\ addresses'[m] >= Base /\ addresses'[m] % 16 = 0
                      /\ \A k \in 1 .. n + 1 :
                           m < k => addresses'[m] + merged_sections[m].size <= addresses'[k]
    BY <1>6, <1>9 DEF SectionsDisjoint
  <2>1. CASE m = n + 1
    <3>1. ~ \E k \in 1 .. n + 1 : m < k
      BY <1>2, <2>1
    <3>2. addresses'[m] = current_address
      BY <1>6, <2>1
    <3> QED BY <1>7, <3>1, <3>2
  <2>2. CASE m \in 1 .. n
    <3>1. addresses'[m] >= Base /\ addresses'[m] % 16 = 0
      BY <1>6, <1>8, <2>2
    <3>2. ASSUME NEW k \in 1 .. n + 1, m < k
          PROVE  addresses'[m] + merged_sections[m].size <= addresses'[k]
      <4>1. CASE k \in 1 .. n
        BY <1>6, <1>8, <2>2, <3>2, <4>1
      <4>2. CASE k = n + 1
        BY <1>6, <1>7, <2>2, <4>2
      <4> QED BY <1>2, <4>1, <4>2
    <3> QED BY <3>1, <3>2
  <2> QED BY <1>2, <2>1, <2>2
<1>12. LinkerTypeOK'
  BY <1>1, <1>2, <1>5, <1>6 DEF LinkInv, LinkerTypeOK, inputs, n
<1>13. EntryFound' <=> EntryFound
  BY <1>1 DEF EntryFound, Defined, inputs
<1>14. AllPlaced'
  BY <1>1 DEF LinkInv, Laying, AllPlaced, inputs
<1> QED BY <1>1, <1>10, <1>11, <1>12, <1>13, <1>14
        DEF LinkInv, Merging, Laying, EntryAtSymbol, inputs

(* The last object with a symbol of the entry's name, and the first symbol *)
(* of it with that name.                                                   *)
LEMMA GreatestExists ==
  ASSUME NEW N \in Nat, NEW set, set \subseteq 1 .. N, set # {}
  PROVE  LastOf(set) \in set
<1> DEFINE flipped == {N - n : n \in set}
<1>1. flipped \subseteq Nat /\ flipped # {}
  <2>1. \A n \in set : N - n \in Nat
    <3> TAKE n \in set
    <3>1. n \in Int /\ n <= N
      OBVIOUS
    <3> QED BY <3>1
  <2>2. flipped \subseteq Nat
    BY <2>1
  <2>3. PICK n : n \in set
    OBVIOUS
  <2> QED BY <2>2, <2>3
<1> HIDE DEF flipped
<1>2. FirstOf(flipped) \in flipped /\ \A m \in flipped : FirstOf(flipped) <= m
  BY <1>1, LeastExists
<1>3. PICK m \in set : FirstOf(flipped) = N - m
  BY <1>2 DEF flipped
<1>4. ASSUME NEW n \in set PROVE n <= m
  <2>1. N - n \in flipped
    BY DEF flipped
  <2>2. N - m <= N - n
    BY <1>2, <1>3, <2>1
  <2>3. n \in Int /\ m \in Int
    OBVIOUS
  <2> QED BY <2>2, <2>3
<1>5. \A n \in set : n <= m
  BY <1>4
<1> QED BY <1>5, Zenon DEF LastOf

LEMMA OnlyMerged ==
  ASSUME merged_sections \in Seq(MergedSection), NamesDiffer(merged_sections),
         NEW m \in 1 .. Len(merged_sections)
  PROVE  /\ Merged(merged_sections[m].name) = {m}
         /\ FirstOf(Merged(merged_sections[m].name)) = m
<1>1. Merged(merged_sections[m].name) = {m}
  BY DEF Merged, NamesDiffer
<1>2. {m} \subseteq Nat /\ {m} # {}
  OBVIOUS
<1> QED BY <1>1, <1>2, LeastExists

LEMMA LayoutEndsStep ==
  ASSUME LinkInv, LayoutEnds
  PROVE  LinkInv'
<1> DEFINE i == LastOf(Candidates)
           s == FirstOf(Named(i))
           symbol == objects[i].symbols[s]
           chunk == <<i, symbol.section>>
<1>1. /\ phase = "layout" /\ phase' = "generate"
      /\ Len(addresses) = Len(merged_sections)
      /\ entry_address' = IF entry_address = Placeholder /\ Candidates # {}
                          THEN AddressOf(i, symbol) ELSE entry_address
      /\ UNCHANGED <<inputs, merged_sections, addresses, input, current_address>>
  BY DEF LayoutEnds
<1>2. /\ objects \in Seq(Object) /\ Len(objects) \in Nat
      /\ merged_sections \in Seq(MergedSection) /\ addresses \in Seq(Nat)
  BY LastElement DEF LinkInv, LinkerTypeOK
<1>3. ASSUME Candidates # {}
      PROVE  /\ i \in 1 .. Len(objects) /\ s \in Named(i)
             /\ symbol \in Symbol
             /\ chunk \in Nat \X Nat /\ IsChunk(objects, chunk)
  <2>1. i \in Candidates
    BY <1>2, <1>3, GreatestExists DEF Candidates
  <2>2. i \in 1 .. Len(objects) /\ Named(i) # {}
    BY <2>1 DEF Candidates
  <2>3. s \in Named(i)
    <3>1. Named(i) \subseteq Nat
      BY DEF Named
    <3> QED BY <2>2, <3>1, LeastExists, Zenon
  <2>4. objects[i] \in Object
    BY <1>2, <2>2
  <2>5. objects[i].symbols \in Seq(Symbol) /\ s \in 1 .. Len(objects[i].symbols)
    BY <2>3, <2>4 DEF Object, Named
  <2>6. symbol \in Symbol
    BY <2>5
  <2>7. symbol.section \in 1 .. Len(objects[i].sections)
    BY <2>2, <2>5 DEF LinkInv, ObjectsOK
  <2>8. symbol.section \in Nat
    BY <2>6 DEF Symbol
  <2> QED BY <2>2, <2>3, <2>6, <2>7, <2>8 DEF IsChunk
<1>4. ASSUME Candidates # {}
      PROVE  \E m \in 1 .. Len(merged_sections) : \E k \in 1 .. Len(merged_sections[m].data) :
               /\ merged_sections[m].data[k] = chunk
               /\ AddressOf(i, symbol) = addresses[m] + SectionAt(chunk).offset + symbol.value
               /\ AddressOf(i, symbol) \in Nat
  <2>1. IsChunk(objects, chunk) /\ chunk \in Nat \X Nat /\ symbol.value \in Nat /\ i \in 1 .. Len(objects)
    BY <1>3, <1>4 DEF Symbol
  <2> HIDE DEF chunk
  <2>2. PICK m \in 1 .. Len(merged_sections) :
          /\ merged_sections[m].name = In(objects, chunk).name
          /\ \E k \in 1 .. Len(merged_sections[m].data) : merged_sections[m].data[k] = chunk
    BY <1>1, <2>1 DEF LinkInv, AllPlaced, PlacedIn, Laying
  <2>3. FirstOf(Merged(In(objects, chunk).name)) = m
    BY <1>2, <2>2, OnlyMerged DEF LinkInv
  <2>4. SectionAt(chunk) = In(objects, chunk)
    BY DEF SectionAt, In
  <2>5. AddressOf(i, symbol) = addresses[m] + SectionAt(chunk).offset + symbol.value
    BY <2>3, <2>4 DEF AddressOf, chunk
  <2>6. objects[chunk[1]] \in Object
    BY <1>2, <2>1 DEF IsChunk
  <2>7. In(objects, chunk).offset \in Nat
    <3>1. objects[chunk[1]].sections \in Seq(Section)
      BY <2>6 DEF Object
    <3>2. In(objects, chunk) \in Section
      BY <2>1, <3>1 DEF IsChunk, In
    <3> QED BY <3>2 DEF Section
  <2>8. addresses[m] \in Nat
    BY <1>1, <1>2
  <2>9. AddressOf(i, symbol) \in Nat
    BY <2>1, <2>4, <2>5, <2>7, <2>8
  <2>10. PICK k \in 1 .. Len(merged_sections[m].data) : merged_sections[m].data[k] = chunk
    BY <2>2
  <2> QED BY <2>5, <2>9, <2>10, Zenon
<1>5. entry_address' \in Nat \union {Placeholder}
  BY <1>1, <1>4 DEF LinkInv, LinkerTypeOK
<1>6. LinkerTypeOK'
  BY <1>1, <1>5 DEF LinkInv, LinkerTypeOK, inputs
<1>7. EntryFound => Candidates # {}
  BY DEF EntryFound, Defined, Candidates, Named
<1>8. EntryAtSymbol'
  <2> SUFFICES ASSUME EntryFound
               PROVE  \E m \in 1 .. Len(merged_sections) : \E k \in 1 .. Len(merged_sections[m].data) :
                        LET c == merged_sections[m].data[k]
                        IN \E r \in Named(c[1]) :
                             /\ objects[c[1]].symbols[r].section = c[2]
                             /\ entry_address' = addresses[m] + SectionAt(c).offset + objects[c[1]].symbols[r].value
    <3>1. /\ EntryFound' <=> EntryFound
          /\ \A j : Named(j)' = Named(j)
          /\ \A c : SectionAt(c)' = SectionAt(c)
      BY <1>1 DEF EntryFound, Defined, Named, SectionAt, inputs
    <3> QED BY <1>1, <3>1 DEF EntryAtSymbol, inputs
  <2>1. entry_address' = AddressOf(i, symbol)
    BY <1>1, <1>7 DEF LinkInv
  <2>a. PICK m \in 1 .. Len(merged_sections) : \E k \in 1 .. Len(merged_sections[m].data) :
          /\ merged_sections[m].data[k] = chunk
          /\ AddressOf(i, symbol) = addresses[m] + SectionAt(chunk).offset + symbol.value
    BY <1>4, <1>7, Zenon
  <2>2. PICK k \in 1 .. Len(merged_sections[m].data) :
          /\ merged_sections[m].data[k] = chunk
          /\ AddressOf(i, symbol) = addresses[m] + SectionAt(chunk).offset + symbol.value
    BY <2>a, Zenon
  <2>3. chunk[1] = i /\ chunk[2] = symbol.section /\ s \in Named(i)
    BY <1>3, <1>7
  <2> QED BY <2>1, <2>2, <2>3
<1>9. AllPlaced'
  BY <1>1 DEF LinkInv, Laying, AllPlaced, inputs
<1>10. LaidOut' /\ SectionsDisjoint'
  BY <1>1 DEF LinkInv, Laying, LaidOut, SectionsDisjoint
<1> QED BY <1>1, <1>6, <1>8, <1>9, <1>10 DEF LinkInv, Merging, Laying, inputs

-----------------------------------------------------------------------------
LEMMA ObjectAdded ==
  ASSUME LinkInv, NEW ext \in DOMAIN Parsed, Len(objects) < MaxObjects,
         objects' = Append(objects, Parsed[ext]), merged_sections' = merged_sections
  PROVE  /\ objects' \in Seq(Object) /\ Len(objects') <= MaxObjects
         /\ ObjectsOK(objects')
         /\ \A m \in 1 .. Len(merged_sections') : TiledIn(objects', merged_sections'[m])
<1>1. /\ objects \in Seq(Object) /\ Len(objects) \in Nat /\ Parsed[ext] \in Object
      /\ merged_sections \in Seq(MergedSection)
  BY LastElement, ParsedAssumption DEF LinkInv, LinkerTypeOK
<1>2. /\ objects' \in Seq(Object) /\ Len(objects') = Len(objects) + 1
      /\ objects'[Len(objects) + 1] = Parsed[ext]
      /\ \A j \in 1 .. Len(objects) : objects'[j] = objects[j]
  BY <1>1, ElementAppended
<1>3. ObjectsOK(objects')
  <2> SUFFICES ASSUME NEW j \in 1 .. Len(objects) + 1
               PROVE  /\ Len(objects'[j].sections) > 0
                      /\ \A r \in 1 .. Len(objects'[j].symbols) :
                           objects'[j].symbols[r].section \in 1 .. Len(objects'[j].sections)
    BY <1>2 DEF ObjectsOK
  <2>1. CASE j \in 1 .. Len(objects)
    BY <1>2, <2>1 DEF LinkInv, ObjectsOK
  <2>2. CASE j = Len(objects) + 1
    BY <1>2, <2>2, ParsedAssumption
  <2> QED BY <1>1, <2>1, <2>2
<1>4. \A d \in Nat \X Nat : IsChunk(objects, d) => IsChunk(objects', d) /\ In(objects', d) = In(objects, d)
  BY <1>1, <1>2 DEF IsChunk, In
<1>5. \A m \in 1 .. Len(merged_sections) : TiledIn(objects', merged_sections[m])
  <2> TAKE m \in 1 .. Len(merged_sections)
  <2> DEFINE section == merged_sections[m]
  <2>1. section \in MergedSection /\ TiledIn(objects, section)
    BY <1>1 DEF LinkInv
  <2>2. section.data \in Seq(Nat \X Nat)
    BY <2>1 DEF MergedSection
  <2>3. Len(section.data) \in Nat /\ (section.data = <<>> <=> Len(section.data) = 0)
    BY <2>2, LastElement
  <2>4. \A k \in 1 .. Len(section.data) : section.data[k] \in Nat \X Nat
    BY <2>2
  <2> HIDE DEF section
  <2>5. \A k \in 1 .. Len(section.data) :
          IsChunk(objects', section.data[k]) /\ In(objects', section.data[k]) = In(objects, section.data[k])
    BY <1>4, <2>1, <2>4 DEF TiledIn
  <2>6. TiledIn(objects', section)
    <3>1. \A k \in 1 .. Len(section.data) : EndIn(objects', section.data[k]) = EndIn(objects, section.data[k])
      BY <2>5 DEF EndIn
    <3>2. \A k \in 1 .. Len(section.data) : k # 1 => k - 1 \in 1 .. Len(section.data)
      BY <2>3
    <3>3. ASSUME NEW k \in 1 .. Len(section.data)
          PROVE  /\ IsChunk(objects', section.data[k])
                 /\ In(objects', section.data[k]).offset
                      = IF k = 1 THEN 0 ELSE EndIn(objects', section.data[k - 1])
      BY <2>1, <2>5, <3>1, <3>2 DEF TiledIn
    <3>4. section.data # <<>> => Len(section.data) \in 1 .. Len(section.data)
      BY <2>3
    <3>5. section.size = IF section.data = <<>> THEN 0 ELSE EndIn(objects', section.data[Len(section.data)])
      BY <2>1, <3>1, <3>4 DEF TiledIn
    <3> QED BY <3>3, <3>5 DEF TiledIn
  <2> QED BY <2>6 DEF section
<1>6. Len(objects') <= MaxObjects
  BY <1>1, <1>2, MaximaAssumption
<1> QED BY <1>2, <1>3, <1>5, <1>6, Zenon

LEMMA AddStep ==
  ASSUME LinkInv, NEW ext \in Extensions, linker_add_object(ext)
  PROVE  LinkInv'
<1>1. /\ phase = "idle" /\ phase' = "idle" /\ merged_sections' = merged_sections
      /\ UNCHANGED <<output_format, entry_symbol, entry_address, addresses, input, current_address>>
      /\ objects' = IF Len(objects) < MaxObjects /\ ext \in DOMAIN Parsed
                    THEN Append(objects, Parsed[ext]) ELSE objects
  BY DEF linker_add_object, Idle, WorkKept
<1>2. /\ objects' \in Seq(Object) /\ Len(objects') <= MaxObjects
      /\ ObjectsOK(objects')
      /\ \A m \in 1 .. Len(merged_sections') : TiledIn(objects', merged_sections'[m])
  BY <1>1, ObjectAdded DEF LinkInv, LinkerTypeOK
<1>3. LinkerTypeOK'
  BY <1>1, <1>2 DEF LinkInv, LinkerTypeOK
<1> QED BY <1>1, <1>2, <1>3, NotLinking DEF LinkInv

(* The steps that leave objects and merged sections alone.                 *)
LEMMA OtherStep ==
  ASSUME LinkInv, phase' = "idle", UNCHANGED <<objects, merged_sections, addresses, current_address, entry_address>>,
         output_format' \in Formats, entry_symbol' \in Names
  PROVE  LinkInv'
<1>1. LinkerTypeOK'
  BY DEF LinkInv, LinkerTypeOK
<1> QED BY <1>1, NotLinking DEF LinkInv

LEMMA Empty ==
  /\ linker_init => LinkInv
  /\ LinkInv /\ linker_destroy => LinkInv'
<1>1. 0 <= MaxObjects /\ 0 <= MaxSections /\ Len(<<>>) = 0
  BY MaximaAssumption
<1>2. ASSUME linker_init PROVE LinkInv
  <2>1. LinkerTypeOK
    BY <1>1, <1>2, NamesAssumption DEF linker_init, LinkerTypeOK, Formats, Base
  <2> QED BY <1>1, <1>2, <2>1
      DEF linker_init, LinkInv, ObjectsOK, NamesDiffer, Merging, Laying, SectionsDisjoint, EntryAtSymbol
<1>3. ASSUME LinkInv, linker_destroy PROVE LinkInv'
  <2>1. phase' = "idle" /\ objects' = <<>> /\ merged_sections' = <<>>
    BY <1>3 DEF linker_destroy, Idle
  <2>2. LinkerTypeOK'
    BY <1>1, <1>3, <2>1, NamesAssumption DEF linker_destroy, LinkInv, LinkerTypeOK, Formats
  <2> QED BY <1>1, <2>1, <2>2, NotLinking DEF ObjectsOK, NamesDiffer
<1> QED BY <1>2, <1>3

-----------------------------------------------------------------------------
LEMMA Inductive ==
  ASSUME LinkInv, [Next]_vars
  PROVE  LinkInv'
<1>1. ASSUME NEW ext \in Extensions, linker_add_object(ext) PROVE LinkInv'
  BY <1>1, AddStep
<1>2. ASSUME NEW fmt \in Formats, linker_set_output_format(fmt) PROVE LinkInv'
  BY <1>2, OtherStep DEF linker_set_output_format, Idle, WorkKept, LinkInv, LinkerTypeOK
<1>3. ASSUME NEW name \in Entries, linker_set_entry(name) PROVE LinkInv'
  BY <1>3, OtherStep, NamesAssumption DEF linker_set_entry, Idle, WorkKept, LinkInv, LinkerTypeOK
<1>4. ASSUME generate_output \/ GenerateFails PROVE LinkInv'
  BY <1>4, OtherStep DEF generate_output, GenerateFails, inputs, LinkInv, LinkerTypeOK
<1>5. CASE UNCHANGED vars
  <2>1. UNCHANGED <<objects, output_format, entry_symbol, entry_address, merged_sections, addresses, phase,
                    input, current_address>>
    BY <1>5 DEF vars, inputs, output
  <2>2. LinkerTypeOK' <=> LinkerTypeOK
    BY <2>1 DEF LinkerTypeOK, Chunks, ChunksOf
  <2>3. (AllPlaced' <=> AllPlaced) /\ (LaidOut' <=> LaidOut) /\ (SectionsDisjoint' <=> SectionsDisjoint)
    BY <2>1 DEF AllPlaced, LaidOut, SectionsDisjoint
  <2>4. (EntryFound' <=> EntryFound) /\ (EntryAtSymbol' <=> EntryAtSymbol)
    BY <2>1 DEF EntryFound, Defined, EntryAtSymbol, Named, SectionAt
  <2> QED BY <2>1, <2>2, <2>3, <2>4 DEF LinkInv, Merging, Laying
<1> QED BY <1>1, <1>2, <1>3, <1>4, <1>5, ResolveStep, MergeStep, MergeFailsStep, MergeEndsStep,
           LayoutStep, LayoutEndsStep, Empty DEF Next

LEMMA Implied ==
  ASSUME LinkInv
  PROVE  LinkerTypeOK /\ ChunksTile /\ SectionsDisjoint /\ SectionsPlaced /\ EntryAtSymbol
<1>1. merged_sections \in Seq(MergedSection) /\ NamesDiffer(merged_sections)
  BY DEF LinkInv, LinkerTypeOK
<1>2. ChunksTile
  <2> SUFFICES ASSUME NEW m \in 1 .. Len(merged_sections) PROVE Tiled(merged_sections[m])
    BY DEF ChunksTile
  <2>1. merged_sections[m] \in MergedSection
    BY <1>1
  <2> QED BY <2>1, TiledIs DEF LinkInv
<1>3. SectionsPlaced
  <2> SUFFICES ASSUME phase \in {"layout", "generate"}, NEW c \in Chunks
               PROVE  \E m \in 1 .. Len(merged_sections) :
                        /\ Merged(SectionAt(c).name) = {m}
                        /\ \E k \in 1 .. Len(merged_sections[m].data) : merged_sections[m].data[k] = c
    BY DEF SectionsPlaced
  <2>1. c \in Nat \X Nat /\ IsChunk(objects, c) /\ SectionAt(c) = In(objects, c)
    BY ChunkIs DEF SectionAt, In
  <2>2. PICK m \in 1 .. Len(merged_sections) :
          /\ merged_sections[m].name = In(objects, c).name
          /\ \E k \in 1 .. Len(merged_sections[m].data) : merged_sections[m].data[k] = c
    BY <2>1 DEF LinkInv, AllPlaced, PlacedIn, Laying
  <2>3. Merged(SectionAt(c).name) = {m}
    BY <1>1, <2>1, <2>2, OnlyMerged
  <2> QED BY <2>2, <2>3
<1> QED BY <1>2, <1>3 DEF LinkInv

(* For all object files, names and limits: the lists of the linker stay    *)
(* within their limits, the input sections that are merged into one follow *)
(* one another without a gap, none is lost, merged sections do not overlap *)
(* in memory, and the entry point has the address of a symbol of its name. *)
THEOREM LinkCorrect ==
  Spec => [](LinkerTypeOK /\ ChunksTile /\ SectionsDisjoint /\ SectionsPlaced /\ EntryAtSymbol)
<1>1. linker_init => LinkInv
  BY Empty
<1>2. LinkInv /\ [Next]_vars => LinkInv'
  BY Inductive
<1>3. LinkInv => LinkerTypeOK /\ ChunksTile /\ SectionsDisjoint /\ SectionsPlaced /\ EntryAtSymbol
  BY Implied
<1> QED BY <1>1, <1>2, <1>3, PTL DEF Spec

-----------------------------------------------------------------------------

(* What an image holds, and how large it is, stated for any list of        *)
(* objects: the sum of the sizes by the ends of the sections in the image. *)
ChunkIn(objs, n, c) ==
  c \in Nat \X Nat /\ c[1] \in 1 .. n /\ c[2] \in 1 .. Len(objs[c[1]].sections)

OrderIn(objs, n, c, d) ==
  IF In(objs, c).name = In(objs, d).name
  THEN Before(c, d)
  ELSE \E first :
         /\ ChunkIn(objs, n, first)
         /\ In(objs, first).name = In(objs, c).name
         /\ \A e : ChunkIn(objs, n, e) /\ In(objs, e).name = In(objs, d).name => Before(first, e)

Along(objs, header, data, end) ==
  /\ end \in [0 .. Len(data) -> Nat]
  /\ end[0] = header
  /\ \A k \in 1 .. Len(data) : end[k] = end[k - 1] + In(objs, data[k]).size

(* The size of an image that holds data in this order.                     *)
Covers(objs, header, data, size) ==
  \E end : Along(objs, header, data, end) /\ size = end[Len(data)]

IsImage(objs, n, image, size) ==
  LET data == image.data
  IN /\ data \in Seq(Nat \X Nat)
     /\ \A k \in 1 .. Len(data) : ChunkIn(objs, n, data[k])
     /\ \A c : ChunkIn(objs, n, c) => \E k \in 1 .. Len(data) : data[k] = c
     /\ \A k, l \in 1 .. Len(data) : k < l => OrderIn(objs, n, data[k], data[l])
     /\ Covers(objs, HeaderSize[image.format], data, size)

ImageInv ==
  output_data # NoOutput => \E n \in 1 .. Len(objects) : IsImage(objects, n, output_data, output_size)

(* The sum is that of the ends.                                            *)
LEMMA SizeAlong ==
  ASSUME NEW header, NEW data, Len(data) \in Nat, NEW end, Along(objects, header, data, end)
  PROVE  SizeOf(header, data) = end[Len(data)]
<1> DEFINE n == Len(data)
           Sum(f) == [k \in 0 .. n |-> IF k = 0 THEN header ELSE f[k - 1] + SectionAt(data[k]).size]
           chosen == CHOOSE f : f = Sum(f)
<1>1. \A c : SectionAt(c) = In(objects, c)
  BY DEF SectionAt, In
<1>2. end = Sum(end)
  <2>1. /\ end = [k \in 0 .. n |-> end[k]]
        /\ end[0] = header
        /\ \A k \in 1 .. n : end[k] = end[k - 1] + In(objects, data[k]).size
    BY DEF Along
  <2>2. \A k \in 0 .. n : k = 0 \/ k \in 1 .. n
    OBVIOUS
  <2>3. \A k \in 0 .. n : end[k] = IF k = 0 THEN header ELSE end[k - 1] + SectionAt(data[k]).size
    BY <1>1, <2>1, <2>2
  <2> QED BY <2>1, <2>3
<1> HIDE DEF Sum
<1>3. chosen = Sum(chosen)
  BY <1>2, Zenon
<1>4. SizeOf(header, data) = chosen[n]
  BY Zenon DEF SizeOf, Sum
<1> HIDE DEF chosen
<1>5. \A k \in 0 .. n : chosen[k] = IF k = 0 THEN header ELSE chosen[k - 1] + SectionAt(data[k]).size
  BY <1>3 DEF Sum
<1>6. \A k \in 0 .. n : end[k] = IF k = 0 THEN header ELSE end[k - 1] + SectionAt(data[k]).size
  BY <1>2 DEF Sum
<1> DEFINE differ == {k \in 0 .. n : chosen[k] # end[k]}
<1>7. differ = {}
  <2> SUFFICES ASSUME differ # {} PROVE FALSE
    OBVIOUS
  <2>1. differ \subseteq Nat
    OBVIOUS
  <2>2. PICK k \in differ : \A j \in differ : k <= j
    <3> HIDE DEF differ
    <3> QED BY <2>1, LeastNumber
  <2>3. k \in 0 .. n /\ chosen[k] # end[k]
    OBVIOUS
  <2>4. k # 0
    BY <1>5, <1>6, <2>3
  <2>5. k - 1 \in 0 .. n /\ k - 1 \notin differ
    <3>1. ~(k <= k - 1)
      BY <2>3
    <3>2. k - 1 \notin differ
      BY <2>2, <3>1
    <3> QED BY <2>3, <2>4, <3>2
  <2>6. chosen[k - 1] = end[k - 1]
    BY <2>5
  <2> QED BY <1>5, <1>6, <2>3, <2>4, <2>6
<1>8. n \in 0 .. n
  OBVIOUS
<1> QED BY <1>4, <1>7, <1>8

LEMMA ImageImplied ==
  ASSUME LinkInv, ImageInv
  PROVE  ImageOfAdded
<1> SUFFICES ASSUME output_data # NoOutput
             PROVE  ImageOfAdded
  BY DEF ImageOfAdded
<1> DEFINE data == output_data.data
<1>1. PICK n \in 1 .. Len(objects) : IsImage(objects, n, output_data, output_size)
  BY DEF ImageInv
<1>2. /\ data \in Seq(Nat \X Nat)
      /\ \A k \in 1 .. Len(data) : ChunkIn(objects, n, data[k])
      /\ \A c : ChunkIn(objects, n, c) => \E k \in 1 .. Len(data) : data[k] = c
      /\ \A k, l \in 1 .. Len(data) : k < l => OrderIn(objects, n, data[k], data[l])
      /\ \E end : /\ Along(objects, HeaderSize[output_data.format], data, end)
                  /\ output_size = end[Len(data)]
  BY <1>1 DEF IsImage, Covers
<1> HIDE DEF data
<1>3. \A c : SectionAt(c) = In(objects, c)
  BY DEF SectionAt, In
<1>4. n \in Nat /\ Len(data) \in Nat
  BY <1>2, LastElement DEF LinkInv, LinkerTypeOK
<1>5. \A c : c \in ChunksOf(n) <=> ChunkIn(objects, n, c)
  BY <1>4 DEF ChunksOf, ChunkIn
<1>6. {data[k] : k \in 1 .. Len(data)} = ChunksOf(n)
  BY <1>2, <1>5
<1>7. ASSUME NEW c, NEW d, OrderIn(objects, n, c, d)
      PROVE  BeforeInImage(n, c, d)
  BY <1>3, <1>5, <1>7, Zenon DEF OrderIn, BeforeInImage
<1>8. \A k, l \in 1 .. Len(data) : k < l => BeforeInImage(n, data[k], data[l])
  BY <1>2, <1>7
<1>9. output_size = SizeOf(HeaderSize[output_data.format], data)
  BY <1>2, <1>4, SizeAlong
<1> QED BY <1>6, <1>8, <1>9, Zenon DEF ImageOfAdded, data

(* Names and sizes are what counts, not the offsets.                       *)
LEMMA ImageKept ==
  ASSUME NEW old, NEW objs, Len(old) \in Nat, Len(objs) \in Nat, Len(old) <= Len(objs),
         \A i \in 1 .. Len(old) :
           /\ Len(objs[i].sections) = Len(old[i].sections)
           /\ \A s \in 1 .. Len(old[i].sections) :
                /\ objs[i].sections[s].name = old[i].sections[s].name
                /\ objs[i].sections[s].size = old[i].sections[s].size,
         NEW n \in 1 .. Len(old), NEW image, NEW size, IsImage(old, n, image, size)
  PROVE  IsImage(objs, n, image, size)
<1> DEFINE data == image.data
<1>1. /\ data \in Seq(Nat \X Nat)
      /\ \A k \in 1 .. Len(data) : ChunkIn(old, n, data[k])
      /\ \A c : ChunkIn(old, n, c) => \E k \in 1 .. Len(data) : data[k] = c
      /\ \A k, l \in 1 .. Len(data) : k < l => OrderIn(old, n, data[k], data[l])
  BY DEF IsImage
<1>2. PICK end : /\ Along(old, HeaderSize[image.format], data, end)
                 /\ size = end[Len(data)]
  BY DEF IsImage, Covers
<1> HIDE DEF data
<1>a. \A i \in 1 .. n : i \in 1 .. Len(old)
  OBVIOUS
<1>3. \A c : ChunkIn(objs, n, c) <=> ChunkIn(old, n, c)
  BY <1>a, Zenon DEF ChunkIn
<1>4. \A c : ChunkIn(old, n, c) => /\ In(objs, c).name = In(old, c).name
                                   /\ In(objs, c).size = In(old, c).size
  BY DEF ChunkIn, In
<1>5. ASSUME NEW c, NEW d, ChunkIn(old, n, c), ChunkIn(old, n, d), OrderIn(old, n, c, d)
      PROVE  OrderIn(objs, n, c, d)
  <2>1. In(objs, c).name = In(old, c).name /\ In(objs, d).name = In(old, d).name
    BY <1>4, <1>5
  <2>2. CASE In(old, c).name = In(old, d).name
    BY <1>5, <2>1, <2>2 DEF OrderIn
  <2>3. CASE In(old, c).name # In(old, d).name
    <3>1. PICK first :
            /\ ChunkIn(old, n, first)
            /\ In(old, first).name = In(old, c).name
            /\ \A e : ChunkIn(old, n, e) /\ In(old, e).name = In(old, d).name => Before(first, e)
      BY <1>5, <2>3 DEF OrderIn
    <3>2. /\ ChunkIn(objs, n, first)
          /\ In(objs, first).name = In(objs, c).name
          /\ \A e : ChunkIn(objs, n, e) /\ In(objs, e).name = In(objs, d).name => Before(first, e)
      BY <1>3, <1>4, <2>1, <3>1, Zenon
    <3> QED BY <2>1, <2>3, <3>2, Zenon DEF OrderIn
  <2> QED BY <2>2, <2>3
<1>6. \A k, l \in 1 .. Len(data) : k < l => OrderIn(objs, n, data[k], data[l])
  BY <1>1, <1>5
<1>7. Along(objs, HeaderSize[image.format], data, end)
  <2>1. \A k \in 1 .. Len(data) : In(objs, data[k]).size = In(old, data[k]).size
    BY <1>1, <1>4
  <2> QED BY <1>2, <2>1 DEF Along
<1>8. /\ \A k \in 1 .. Len(data) : ChunkIn(objs, n, data[k])
      /\ \A c : ChunkIn(objs, n, c) => \E k \in 1 .. Len(data) : data[k] = c
  BY <1>1, <1>3, Zenon
<1> QED BY <1>1, <1>2, <1>6, <1>7, <1>8, Zenon DEF IsImage, Covers, data

-----------------------------------------------------------------------------
(* While link runs, the merged sections and what is in them are in the     *)
(* order in which link comes to the input sections.                        *)
InOrder(objs, ms) ==
  /\ \A m \in 1 .. Len(ms) :
       /\ ms[m].data # <<>>
       /\ \A k \in 1 .. Len(ms[m].data) : In(objs, ms[m].data[k]).name = ms[m].name
       /\ \A k, l \in 1 .. Len(ms[m].data) : k < l => Before(ms[m].data[k], ms[m].data[l])
  /\ \A m, n \in 1 .. Len(ms) : m < n => Before(ms[m].data[1], ms[n].data[1])

OrderInv == phase # "idle" => Len(objects) > 0 /\ InOrder(objects, merged_sections)

LEMMA ChunkAppended ==
  \A q \in Seq(Nat \X Nat), c \in Nat \X Nat :
    /\ Append(q, c) # <<>> /\ Len(Append(q, c)) = Len(q) + 1
    /\ Append(q, c)[Len(q) + 1] = c
    /\ \A k \in 1 .. Len(q) : Append(q, c)[k] = q[k]
<1> DEFINE S == Nat \X Nat
<1> SUFFICES ASSUME NEW q \in Seq(S), NEW c \in S
             PROVE  /\ Append(q, c) # <<>> /\ Len(Append(q, c)) = Len(q) + 1
                    /\ Append(q, c)[Len(q) + 1] = c
                    /\ \A k \in 1 .. Len(q) : Append(q, c)[k] = q[k]
  OBVIOUS
<1> HIDE DEF S
<1> QED OBVIOUS

LEMMA MergeOrder ==
  ASSUME LinkInv, OrderInv, merge_sections
  PROVE  OrderInv'
<1> DEFINE name == SectionAt(input).name
           W == WithTarget(name)
           t == Target(name)
           ms == merged_sections
           new == merged_sections'
           longer == [W[t] EXCEPT !.size = @ + SectionAt(input).size, !.data = Append(@, input)]
<1>1. /\ phase = "merge" /\ input[1] <= Len(objects)
      /\ OffsetSet(t)
      /\ new = [W EXCEPT ![t] = longer]
  BY DEF merge_sections, AppendSection
<1>2. /\ input \in Nat \X Nat /\ IsChunk(objects, input)
      /\ SectionAt(input) = In(objects, input)
      /\ name \in Names
  BY <1>1, InputIsChunk DEF Section
<1>3. merged_sections \in Seq(MergedSection)
  BY DEF LinkInv, LinkerTypeOK
<1>4. /\ W \in Seq(MergedSection) /\ t \in 1 .. Len(W) /\ W[t].name = name
      /\ \A m \in 1 .. Len(ms) : m \in 1 .. Len(W) /\ W[m] = ms[m]
      /\ \A m \in 1 .. Len(W) : m \notin 1 .. Len(ms) => W[m].data = <<>> /\ W[m].size = 0
      /\ Len(W) = IF Merged(name) = {} THEN Len(ms) + 1 ELSE Len(ms)
  BY <1>2, <1>3, TargetShape DEF LinkInv
<1>5. /\ Len(objects') = Len(objects)
      /\ \A d \in Nat \X Nat : IsChunk(objects, d) => In(objects', d).name = In(objects, d).name
      /\ \A m \in 1 .. Len(W) :
           TiledIn(objects, W[m]) /\ \A k \in 1 .. Len(W[m].data) : Before(W[m].data[k], input)
  BY <1>1, OffsetStep
<1>6. Len(objects) > 0 /\ InOrder(objects, ms)
  BY <1>1 DEF OrderInv
(* A target that is not the last was there before. *)
<1>7. \A m \in 1 .. Len(W) : m \in 1 .. Len(ms) \/ (m = Len(ms) + 1 /\ t = m)
  <2>1. Len(ms) \in Nat
    BY <1>3, LastElement
  <2>2. Merged(name) = {} => t = Len(ms) + 1
    BY DEF Target
  <2> QED BY <1>4, <2>1, <2>2
<1>8. \A m \in 1 .. Len(W) : W[m].data \in Seq(Nat \X Nat)
  <2> TAKE m \in 1 .. Len(W)
  <2>1. W[m] \in MergedSection
    BY <1>4
  <2> QED BY <2>1 DEF MergedSection
<1> HIDE DEF W, t, name, longer
<1>9. /\ Len(new) = Len(W)
      /\ \A m \in 1 .. Len(W) : new[m].name = W[m].name
      /\ \A m \in 1 .. Len(W) : new[m].data = IF m = t THEN Append(W[m].data, input) ELSE W[m].data
  <2>1. W[t] \in MergedSection
    BY <1>4
  <2>2. longer.name = W[t].name /\ longer.data = Append(W[t].data, input)
    BY <2>1 DEF MergedSection, longer
  <2>3. new = [W EXCEPT ![t] = longer]
    BY <1>1
  <2>4. Len(new) = Len(W) /\ \A m \in 1 .. Len(W) : new[m] = IF m = t THEN longer ELSE W[m]
    BY <1>4, <2>3
  <2> QED BY <2>2, <2>4
<1>10. \A m \in 1 .. Len(W) :
         LET q == W[m].data
             r == Append(q, input)
         IN /\ Len(q) \in Nat /\ (q = <<>> <=> Len(q) = 0)
            /\ r # <<>> /\ Len(r) = Len(q) + 1 /\ r[Len(q) + 1] = input
            /\ \A k \in 1 .. Len(q) : r[k] = q[k]
  <2> TAKE m \in 1 .. Len(W)
  <2> DEFINE q == W[m].data
  <2>1. q \in Seq(Nat \X Nat)
    BY <1>8
  <2> HIDE DEF q
  <2>2. Len(q) \in Nat /\ (q = <<>> <=> Len(q) = 0)
    BY <2>1, LastElement
  <2>3. /\ Append(q, input) # <<>> /\ Len(Append(q, input)) = Len(q) + 1
        /\ Append(q, input)[Len(q) + 1] = input
        /\ \A k \in 1 .. Len(q) : Append(q, input)[k] = q[k]
    BY <1>2, <2>1, ChunkAppended
  <2> QED BY <2>2, <2>3 DEF q
<1>11. \A m \in 1 .. Len(W) : \A k \in 1 .. Len(W[m].data) :
         /\ IsChunk(objects, W[m].data[k]) /\ W[m].data[k] \in Nat \X Nat
         /\ Before(W[m].data[k], input)
         /\ In(objects', W[m].data[k]).name = In(objects, W[m].data[k]).name
         /\ In(objects', W[m].data[k]).name = W[m].name
  <2> TAKE m \in 1 .. Len(W)
  <2> TAKE k \in 1 .. Len(W[m].data)
  <2>1. IsChunk(objects, W[m].data[k]) /\ W[m].data[k] \in Nat \X Nat /\ Before(W[m].data[k], input)
    BY <1>5, <1>8 DEF TiledIn
  <2>2. In(objects', W[m].data[k]).name = In(objects, W[m].data[k]).name
    BY <1>5, <2>1
  <2>3. m \in 1 .. Len(ms)
    <3>1. Len(W[m].data) # 0
      OBVIOUS
    <3> QED BY <1>4, <1>10, <3>1
  <2> QED BY <1>4, <1>6, <2>1, <2>2, <2>3 DEF InOrder
<1>12. ASSUME NEW m \in 1 .. Len(W)
       PROVE  /\ new[m].data # <<>>
              /\ \A k \in 1 .. Len(new[m].data) : In(objects', new[m].data[k]).name = new[m].name
              /\ \A k, l \in 1 .. Len(new[m].data) : k < l => Before(new[m].data[k], new[m].data[l])
  <2> DEFINE q == W[m].data
             r == new[m].data
  <2>1. /\ \A k \in 1 .. Len(q) : Before(q[k], input) /\ In(objects', q[k]).name = W[m].name
        /\ \A k, l \in 1 .. Len(q) : k < l => Before(q[k], q[l])
        /\ m \in 1 .. Len(ms) => q # <<>>
    <3>1. CASE m \in 1 .. Len(ms)
      BY <1>4, <1>6, <1>11, <3>1 DEF InOrder
    <3>2. CASE m \notin 1 .. Len(ms)
      BY <1>4, <1>10, <3>2
    <3> QED BY <3>1, <3>2
  <2>2. new[m].name = W[m].name /\ r = IF m = t THEN Append(q, input) ELSE q
    BY <1>9
  <2>3. CASE m # t
    <3>1. m \in 1 .. Len(ms)
      BY <1>7, <2>3
    <3> QED BY <2>1, <2>2, <2>3, <3>1
  <2>4. CASE m = t
    <3>1. /\ Len(q) \in Nat /\ r # <<>> /\ Len(r) = Len(q) + 1 /\ r[Len(q) + 1] = input
          /\ \A k \in 1 .. Len(q) : r[k] = q[k]
      BY <1>10, <2>2, <2>4
    <3>2. In(objects', input).name = new[m].name
      BY <1>2, <1>4, <1>5, <2>2, <2>4 DEF name
    <3> HIDE DEF q, r
    <3>3. \A k \in 1 .. Len(r) : k \in 1 .. Len(q) \/ k = Len(q) + 1
      BY <3>1
    <3>4. \A k \in 1 .. Len(r) : In(objects', r[k]).name = new[m].name
      BY <2>1, <2>2, <3>1, <3>2, <3>3
    <3>5. ASSUME NEW k \in 1 .. Len(r), NEW l \in 1 .. Len(r), k < l
          PROVE  Before(r[k], r[l])
      <4>1. k \in 1 .. Len(q)
        BY <3>1, <3>5
      <4>2. CASE l \in 1 .. Len(q)
        BY <2>1, <3>1, <3>5, <4>1, <4>2
      <4>3. CASE l = Len(q) + 1
        BY <2>1, <3>1, <4>1, <4>3
      <4> QED BY <3>3, <4>2, <4>3
    <3> QED BY <3>1, <3>4, <3>5 DEF r
  <2> QED BY <2>3, <2>4
<1>13. ASSUME NEW m \in 1 .. Len(W), NEW n \in 1 .. Len(W), m < n
       PROVE  Before(new[m].data[1], new[n].data[1])
  <2>1. Len(ms) \in Nat
    BY <1>3, LastElement
  <2>2. m \in 1 .. Len(ms)
    BY <1>7, <1>13, <2>1
  <2>3. W[m].data # <<>>
    BY <1>4, <1>6, <2>2 DEF InOrder
  <2>4. \A i \in 1 .. Len(W) : W[i].data # <<>> => 1 \in 1 .. Len(W[i].data) /\ new[i].data[1] = W[i].data[1]
    <3> TAKE i \in 1 .. Len(W)
    <3> HAVE W[i].data # <<>>
    <3>1. 1 \in 1 .. Len(W[i].data)
      BY <1>10
    <3>2. new[i].data = W[i].data \/ new[i].data = Append(W[i].data, input)
      BY <1>9
    <3>3. Append(W[i].data, input)[1] = W[i].data[1]
      BY <1>10, <3>1
    <3> QED BY <3>1, <3>2, <3>3
  <2>5. CASE n \in 1 .. Len(ms)
    <3>1. W[n].data # <<>> /\ Before(ms[m].data[1], ms[n].data[1])
      BY <1>4, <1>6, <1>13, <2>2, <2>5 DEF InOrder
    <3> QED BY <1>4, <2>2, <2>3, <2>4, <2>5, <3>1
  <2>6. CASE n \notin 1 .. Len(ms)
    <3>1. n = t /\ W[n].data = <<>>
      BY <1>4, <1>7, <2>6
    <3>2. new[n].data = Append(W[n].data, input) /\ Len(W[n].data) = 0
      BY <1>9, <1>10, <3>1
    <3>3. new[n].data[1] = input
      BY <1>10, <3>2
    <3> QED BY <1>11, <2>3, <2>4, <3>3
  <2> QED BY <2>5, <2>6
<1>14. InOrder(objects', new)
  BY <1>9, <1>12, <1>13 DEF InOrder
<1> QED BY <1>5, <1>6, <1>14 DEF OrderInv

LEMMA OrderStep ==
  ASSUME LinkInv, OrderInv, [Next]_vars
  PROVE  OrderInv'
<1>1. CASE phase' = "idle"
  BY <1>1 DEF OrderInv
<1>2. CASE merge_sections
  BY <1>2, MergeOrder
<1>3. CASE resolve_symbols
  BY <1>3 DEF resolve_symbols, OrderInv, InOrder, inputs
<1>4. CASE phase # "idle" /\ UNCHANGED <<objects, merged_sections>>
  BY <1>4 DEF OrderInv
<1>5. phase' = "idle" \/ merge_sections \/ resolve_symbols
        \/ (phase # "idle" /\ UNCHANGED <<objects, merged_sections>>)
  <2>1. CASE UNCHANGED vars
    BY <2>1 DEF vars, inputs
  <2>2. CASE Next
    <3>1. ASSUME NEW ext \in Extensions, linker_add_object(ext) PROVE phase' = "idle"
      BY <3>1 DEF linker_add_object, Idle, WorkKept
    <3>2. ASSUME NEW fmt \in Formats, linker_set_output_format(fmt) PROVE phase' = "idle"
      BY <3>2 DEF linker_set_output_format, Idle, WorkKept
    <3>3. ASSUME NEW n \in Entries, linker_set_entry(n) PROVE phase' = "idle"
      BY <3>3 DEF linker_set_entry, Idle, WorkKept
    <3>4. MergeFails \/ generate_output \/ GenerateFails \/ linker_destroy => phase' = "idle"
      BY DEF MergeFails, generate_output, GenerateFails, linker_destroy, Idle
    <3>5. MergeEnds \/ layout_sections \/ LayoutEnds =>
            phase # "idle" /\ UNCHANGED <<objects, merged_sections>>
      BY DEF MergeEnds, layout_sections, LayoutEnds, inputs
    <3> QED BY <2>2, <3>1, <3>2, <3>3, <3>4, <3>5 DEF Next
  <2> QED BY <2>1, <2>2
<1> QED BY <1>1, <1>2, <1>3, <1>4, <1>5

-----------------------------------------------------------------------------
(* The contents of the image, section by section.                          *)

(* data is what the first m merged sections hold, one after the other.     *)
Joined(ms, m, data) ==
  /\ data \in Seq(Nat \X Nat)
  /\ \A i \in 1 .. m : \A a \in 1 .. Len(ms[i].data) :
       \E k \in 1 .. Len(data) : data[k] = ms[i].data[a]
  /\ \A k \in 1 .. Len(data) : \E i \in 1 .. m : \E a \in 1 .. Len(ms[i].data) :
       data[k] = ms[i].data[a]
  /\ \A k, l \in 1 .. Len(data) : k < l =>
       \E i, j \in 1 .. m : \E a \in 1 .. Len(ms[i].data), b \in 1 .. Len(ms[j].data) :
         /\ data[k] = ms[i].data[a] /\ data[l] = ms[j].data[b]
         /\ i < j \/ (i = j /\ a < b)

LEMMA TwoJoined ==
  ASSUME NEW S, NEW p \in Seq(S), NEW q \in Seq(S)
  PROVE  /\ p \o q \in Seq(S) /\ Len(p \o q) = Len(p) + Len(q)
         /\ \A k \in 1 .. Len(p) : (p \o q)[k] = p[k]
         /\ \A k \in 1 .. Len(q) : (p \o q)[Len(p) + k] = q[k]
OBVIOUS

LEMMA JoinedFurther ==
  ASSUME NEW ms, NEW m \in Nat \ {0}, NEW data, Joined(ms, m - 1, data),
         ms[m].data \in Seq(Nat \X Nat)
  PROVE  Joined(ms, m, data \o ms[m].data)
<1> DEFINE more == ms[m].data
           all == data \o more
<1>1. data \in Seq(Nat \X Nat) /\ Len(data) \in Nat /\ Len(more) \in Nat
  BY LastElement DEF Joined
<1>2. /\ all \in Seq(Nat \X Nat) /\ Len(all) = Len(data) + Len(more)
      /\ \A k \in 1 .. Len(data) : all[k] = data[k]
      /\ \A k \in 1 .. Len(more) : all[Len(data) + k] = more[k]
  BY <1>1, TwoJoined
<1> HIDE DEF all
<1>3. \A k \in 1 .. Len(all) :
        \/ k \in 1 .. Len(data)
        \/ k - Len(data) \in 1 .. Len(more) /\ all[k] = more[k - Len(data)]
  <2> TAKE k \in 1 .. Len(all)
  <2>1. k \in 1 .. Len(data) \/ k - Len(data) \in 1 .. Len(more)
    <3>1. Len(data) \in Nat /\ Len(more) \in Nat /\ Len(all) = Len(data) + Len(more)
      BY <1>1, <1>2
    <3> HIDE DEF more
    <3> QED BY <3>1
  <2>2. ASSUME k - Len(data) \in 1 .. Len(more)
        PROVE  all[k] = more[k - Len(data)]
    <3>1. k = Len(data) + (k - Len(data))
      BY <1>1
    <3> QED BY <1>2, <2>2, <3>1
  <2> QED BY <2>1, <2>2
<1>a. /\ \A k \in 1 .. Len(data) : k \in 1 .. Len(all)
      /\ \A a \in 1 .. Len(more) : Len(data) + a \in 1 .. Len(all)
  <2> HIDE DEF more
  <2> QED BY <1>1, <1>2
<1>4. \A i \in 1 .. m : i \in 1 .. m - 1 \/ i = m
  OBVIOUS
<1>5. m \in 1 .. m /\ \A i \in 1 .. m - 1 : i \in 1 .. m /\ i < m
  OBVIOUS
<1>6. ASSUME NEW i \in 1 .. m, NEW a \in 1 .. Len(ms[i].data)
      PROVE  \E k \in 1 .. Len(all) : all[k] = ms[i].data[a]
  <2>1. CASE i \in 1 .. m - 1
    <3>1. PICK k \in 1 .. Len(data) : data[k] = ms[i].data[a]
      BY <2>1 DEF Joined
    <3>2. k \in 1 .. Len(all)
      BY <1>a
    <3> QED BY <1>2, <3>1, <3>2
  <2>2. CASE i = m
    <3>1. Len(data) + a \in 1 .. Len(all)
      BY <1>a, <2>2
    <3>2. all[Len(data) + a] = ms[i].data[a]
      BY <1>2, <2>2
    <3> QED BY <3>1, <3>2
  <2> QED BY <1>4, <2>1, <2>2
<1>7. ASSUME NEW k \in 1 .. Len(all)
      PROVE  \E i \in 1 .. m : \E a \in 1 .. Len(ms[i].data) : all[k] = ms[i].data[a]
  <2>1. CASE k \in 1 .. Len(data)
    <3>1. PICK i \in 1 .. m - 1 : \E a \in 1 .. Len(ms[i].data) : data[k] = ms[i].data[a]
      BY <2>1 DEF Joined
    <3> QED BY <1>2, <1>5, <2>1, <3>1
  <2>2. CASE k - Len(data) \in 1 .. Len(more) /\ all[k] = more[k - Len(data)]
    BY <1>5, <2>2
  <2> QED BY <1>3, <2>1, <2>2
<1>8. ASSUME NEW k \in 1 .. Len(all), NEW l \in 1 .. Len(all), k < l
      PROVE  \E i, j \in 1 .. m : \E a \in 1 .. Len(ms[i].data), b \in 1 .. Len(ms[j].data) :
               /\ all[k] = ms[i].data[a] /\ all[l] = ms[j].data[b]
               /\ i < j \/ (i = j /\ a < b)
  <2>1. CASE k \in 1 .. Len(data) /\ l \in 1 .. Len(data)
    <3>1. PICK i, j \in 1 .. m - 1 : \E a \in 1 .. Len(ms[i].data), b \in 1 .. Len(ms[j].data) :
            /\ data[k] = ms[i].data[a] /\ data[l] = ms[j].data[b]
            /\ i < j \/ (i = j /\ a < b)
      BY <1>8, <2>1 DEF Joined
    <3>2. i \in 1 .. m /\ j \in 1 .. m /\ all[k] = data[k] /\ all[l] = data[l]
      BY <1>2, <1>5, <2>1
    <3> QED BY <3>1, <3>2, Zenon
  <2>2. CASE k \in 1 .. Len(data) /\ l - Len(data) \in 1 .. Len(more) /\ all[l] = more[l - Len(data)]
    <3>1. PICK i \in 1 .. m - 1 : \E a \in 1 .. Len(ms[i].data) : data[k] = ms[i].data[a]
      BY <2>2 DEF Joined
    <3>2. i \in 1 .. m /\ i < m /\ m \in 1 .. m /\ all[k] = data[k]
      BY <1>2, <1>5, <2>2
    <3> QED BY <2>2, <3>1, <3>2
  <2>3. CASE /\ k - Len(data) \in 1 .. Len(more) /\ all[k] = more[k - Len(data)]
             /\ l - Len(data) \in 1 .. Len(more) /\ all[l] = more[l - Len(data)]
    <3>1. k - Len(data) < l - Len(data)
      BY <1>1, <1>8
    <3> QED BY <1>5, <2>3, <3>1
  <2>4. ~(l \in 1 .. Len(data) /\ k - Len(data) \in 1 .. Len(more))
    BY <1>1, <1>8
  <2> QED BY <1>3, <2>1, <2>2, <2>3, <2>4
<1>9. Joined(ms, m, all)
  BY <1>2, <1>6, <1>7, <1>8 DEF Joined
<1> QED BY <1>9 DEF all

(* The ends of the sections in the data go on from the size there is.      *)
IsSections(objs, data) ==
  /\ data \in Seq(Nat \X Nat)
  /\ \A k \in 1 .. Len(data) : In(objs, data[k]) \in Section

LEMMA AlongFurther ==
  ASSUME NEW objs, NEW header \in Nat, NEW data, NEW size, IsSections(objs, data),
         Covers(objs, header, data, size),
         NEW section \in MergedSection, TiledIn(objs, section), IsSections(objs, section.data)
  PROVE  Covers(objs, header, data \o section.data, size + section.size)
<1>a. PICK end : Along(objs, header, data, end) /\ size = end[Len(data)]
  BY DEF Covers
<1> DEFINE more == section.data
           all == data \o more
           n == Len(data)
           longer == [k \in 0 .. Len(all) |->
                        IF k <= n THEN end[k] ELSE end[n] + EndIn(objs, more[k - n])]
<1>1. more \in Seq(Nat \X Nat) /\ n \in Nat /\ Len(more) \in Nat /\ (more = <<>> <=> Len(more) = 0)
  BY LastElement DEF MergedSection, IsSections
<1>2. /\ Len(all) = n + Len(more)
      /\ \A k \in 1 .. n : all[k] = data[k]
      /\ \A k \in 1 .. Len(more) : all[n + k] = more[k]
  BY <1>1, TwoJoined DEF IsSections
<1>3. /\ \A k \in 1 .. Len(more) :
           /\ In(objs, more[k]).offset \in Nat /\ In(objs, more[k]).size \in Nat
           /\ EndIn(objs, more[k]) = In(objs, more[k]).offset + In(objs, more[k]).size
           /\ In(objs, more[k]).offset = IF k = 1 THEN 0 ELSE EndIn(objs, more[k - 1])
      /\ section.size = IF more = <<>> THEN 0 ELSE EndIn(objs, more[Len(more)])
  BY DEF TiledIn, EndIn, Section, IsSections
<1>4. /\ \A k \in 0 .. n : end[k] \in Nat
      /\ end[0] = header
      /\ \A k \in 1 .. n : end[k] = end[k - 1] + In(objs, data[k]).size
  BY <1>a DEF Along
<1>5. ASSUME NEW k \in 1 .. Len(more)
      PROVE  EndIn(objs, more[k]) \in Nat
  <2>1. /\ In(objs, more[k]).offset \in Nat /\ In(objs, more[k]).size \in Nat
        /\ EndIn(objs, more[k]) = In(objs, more[k]).offset + In(objs, more[k]).size
    BY <1>3
  <2> HIDE DEF more
  <2> QED BY <2>1
<1>6. end[n] \in Nat
  BY <1>1, <1>4
<1> HIDE DEF all, more, n
<1>7. \A k \in 0 .. Len(all) : k \in 0 .. n \/ (k - n \in 1 .. Len(more) /\ ~(k <= n))
  BY <1>1, <1>2
<1>8. longer \in [0 .. Len(all) -> Nat]
  <2> SUFFICES ASSUME NEW k \in 0 .. Len(all)
               PROVE  (IF k <= n THEN end[k] ELSE end[n] + EndIn(objs, more[k - n])) \in Nat
    OBVIOUS
  <2>1. CASE k \in 0 .. n
    <3>1. k <= n
      BY <1>1, <2>1
    <3> QED BY <1>4, <2>1, <3>1
  <2>2. CASE k - n \in 1 .. Len(more) /\ ~(k <= n)
    <3>1. EndIn(objs, more[k - n]) \in Nat
      BY <1>5, <2>2
    <3> QED BY <1>6, <2>2, <3>1
  <2> QED BY <1>7, <2>1, <2>2
<1>9. /\ \A k \in 0 .. n : longer[k] = end[k]
      /\ \A k \in 1 .. Len(more) : longer[n + k] = end[n] + EndIn(objs, more[k])
  <2>1. \A k \in 0 .. n : k \in 0 .. Len(all) /\ k <= n
    BY <1>1, <1>2
  <2>2. \A k \in 1 .. Len(more) : n + k \in 0 .. Len(all) /\ ~(n + k <= n) /\ (n + k) - n = k
    BY <1>1, <1>2
  <2> QED BY <2>1, <2>2
<1> HIDE DEF longer
<1>10. longer[0] = header
  <2>1. 0 \in 0 .. n
    BY <1>1
  <2> QED BY <1>4, <1>9, <2>1
<1>11. ASSUME NEW k \in 1 .. Len(all)
       PROVE  longer[k] = longer[k - 1] + In(objs, all[k]).size
  <2>1. CASE k \in 1 .. n
    <3>1. k \in 0 .. n /\ k - 1 \in 0 .. n
      BY <1>1, <2>1
    <3> QED BY <1>2, <1>4, <1>9, <2>1, <3>1
  <2>2. ASSUME NEW j \in 1 .. Len(more), k = n + j
        PROVE  longer[k] = longer[k - 1] + In(objs, all[k]).size
    <3>1. longer[k] = end[n] + EndIn(objs, more[j]) /\ all[k] = more[j]
      BY <1>2, <1>9, <2>2
    <3>2. longer[k - 1] = end[n] + In(objs, more[j]).offset
      <4>1. CASE j = 1
        <5>1. k - 1 = n /\ n \in 0 .. n
          BY <1>1, <2>2, <4>1
        <5>2. longer[k - 1] = end[n]
          BY <1>9, <5>1
        <5>3. In(objs, more[j]).offset = 0
          BY <1>3, <4>1
        <5> QED BY <1>6, <5>2, <5>3
      <4>2. CASE j # 1
        <5>1. k - 1 = n + (j - 1) /\ j - 1 \in 1 .. Len(more)
          BY <1>1, <2>2, <4>2
        <5> QED BY <1>3, <1>9, <4>2, <5>1
      <4> QED BY <4>1, <4>2
    <3>3. /\ EndIn(objs, more[j]) = In(objs, more[j]).offset + In(objs, more[j]).size
          /\ In(objs, more[j]).offset \in Nat /\ In(objs, more[j]).size \in Nat
      BY <1>3
    <3> QED BY <1>6, <3>1, <3>2, <3>3
  <2>3. k \in 1 .. n \/ (k - n \in 1 .. Len(more) /\ k = n + (k - n))
    BY <1>1, <1>2
  <2> QED BY <2>1, <2>2, <2>3
<1>12. longer[Len(all)] = end[n] + section.size
  <2>1. CASE Len(more) = 0
    <3>1. section.size = 0 /\ Len(all) = n /\ n \in 0 .. n
      BY <1>1, <1>2, <1>3, <2>1
    <3> QED BY <1>6, <1>9, <3>1
  <2>2. CASE Len(more) # 0
    <3>1. Len(more) \in 1 .. Len(more) /\ Len(all) = n + Len(more)
      BY <1>1, <1>2, <2>2
    <3>2. section.size = EndIn(objs, more[Len(more)])
      BY <1>1, <1>3, <2>2
    <3> QED BY <1>9, <3>1, <3>2
  <2> QED BY <2>1, <2>2
<1>13. Along(objs, header, all, longer)
  BY <1>8, <1>10, <1>11 DEF Along
<1> QED BY <1>a, <1>12, <1>13, Zenon DEF Covers, all, more, n

(* What the loops of generate_output add up.                               *)
LEMMA ContentsEquation ==
  ASSUME merged_sections \in Seq(MergedSection)
  PROVE  \E data :
           /\ data[0] = <<>>
           /\ \A m \in 1 .. Len(merged_sections) : data[m] = data[m - 1] \o merged_sections[m].data
           /\ Contents = data[Len(merged_sections)]
<1> DEFINE n == Len(merged_sections)
           V == Seq(Nat \X Nat)
           more(m) == merged_sections[m].data
           step == [m \in 1 .. n |-> [v \in V |-> v \o more(m)]]
           Joining(f) == [m \in 0 .. n |-> IF m = 0 THEN <<>> ELSE f[m - 1] \o more(m)]
           chosen == CHOOSE f : f = Joining(f)
<1>1. n \in Nat /\ \A m \in 1 .. n : more(m) \in V
  <2>1. \A m \in 1 .. n : merged_sections[m] \in MergedSection
    OBVIOUS
  <2> QED BY <2>1, LastElement DEF MergedSection
<1>2. Contents = chosen[n]
  BY Zenon DEF Contents
<1> HIDE DEF n, more
<1>3. <<>> \in V
  OBVIOUS
<1>4. \A m \in 1 .. n : \A v \in V : v \o more(m) \in V
  BY <1>1, TwoJoined
<1> HIDE DEF V
<1>5. /\ Steps(n, V, step)
      /\ \A m \in 1 .. n : \A v \in V : step[m][v] = v \o more(m)
  BY <1>4 DEF Steps
<1> HIDE DEF step
<1>a. PICK f : Accumulation(n, V, <<>>, step, f)
  BY <1>1, <1>3, <1>5, Accumulates
<1>6. f \in [0 .. n -> V] /\ f[0] = <<>> /\ \A m \in 1 .. n : f[m] = step[m][f[m - 1]]
  BY <1>a DEF Accumulation
<1>7. f = Joining(f)
  <2>1. \A m \in 0 .. n : m = 0 \/ (m \in 1 .. n /\ m - 1 \in 0 .. n)
    BY <1>1
  <2>2. \A m \in 0 .. n : f[m] = IF m = 0 THEN <<>> ELSE f[m - 1] \o more(m)
    BY <1>5, <1>6, <2>1
  <2>3. f = [m \in 0 .. n |-> f[m]]
    BY <1>6
  <2> QED BY <2>2, <2>3
<1> HIDE DEF Joining
<1>8. chosen = Joining(chosen)
  BY <1>7, Zenon
<1> HIDE DEF chosen
<1>9. \A m \in 0 .. n : chosen[m] = IF m = 0 THEN <<>> ELSE chosen[m - 1] \o more(m)
  BY <1>8 DEF Joining
<1>10. 0 \in 0 .. n /\ \A m \in 1 .. n : m \in 0 .. n /\ m # 0
  BY <1>1
<1>11. chosen[0] = <<>> /\ \A m \in 1 .. n : chosen[m] = chosen[m - 1] \o more(m)
  BY <1>9, <1>10
<1> QED BY <1>2, <1>11, Zenon DEF n, more

LEMMA TotalEquation ==
  ASSUME merged_sections \in Seq(MergedSection), output_format \in Formats
  PROVE  \E total :
           /\ total[0] = HeaderSize[output_format]
           /\ \A m \in 1 .. Len(merged_sections) : total[m] = total[m - 1] + merged_sections[m].size
           /\ TotalSize = total[Len(merged_sections)]
<1> DEFINE n == Len(merged_sections)
           header == HeaderSize[output_format]
           more(m) == merged_sections[m].size
           step == [m \in 1 .. n |-> [v \in Nat |-> v + more(m)]]
           Adding(f) == [m \in 0 .. n |-> IF m = 0 THEN header ELSE f[m - 1] + more(m)]
           chosen == CHOOSE f : f = Adding(f)
<1>1. n \in Nat /\ header \in Nat /\ \A m \in 1 .. n : more(m) \in Nat
  <2>1. \A m \in 1 .. n : merged_sections[m] \in MergedSection
    OBVIOUS
  <2>2. header \in Nat
    BY DEF HeaderSize, Formats
  <2> QED BY <2>1, <2>2, LastElement DEF MergedSection
<1>2. TotalSize = chosen[n]
  BY Zenon DEF TotalSize
<1> HIDE DEF n, more, header
<1>5. /\ Steps(n, Nat, step)
      /\ \A m \in 1 .. n : \A v \in Nat : step[m][v] = v + more(m)
  BY <1>1 DEF Steps
<1> HIDE DEF step
<1>a. PICK f : Accumulation(n, Nat, header, step, f)
  BY <1>1, <1>5, Accumulates
<1>6. f \in [0 .. n -> Nat] /\ f[0] = header /\ \A m \in 1 .. n : f[m] = step[m][f[m - 1]]
  BY <1>a DEF Accumulation
<1>7. f = Adding(f)
  <2>1. \A m \in 0 .. n : m = 0 \/ (m \in 1 .. n /\ m - 1 \in 0 .. n)
    BY <1>1
  <2>2. \A m \in 0 .. n : f[m] = IF m = 0 THEN header ELSE f[m - 1] + more(m)
    BY <1>5, <1>6, <2>1
  <2>3. f = [m \in 0 .. n |-> f[m]]
    BY <1>6
  <2> QED BY <2>2, <2>3
<1> HIDE DEF Adding
<1>8. chosen = Adding(chosen)
  BY <1>7, Zenon
<1> HIDE DEF chosen
<1>9. \A m \in 0 .. n : chosen[m] = IF m = 0 THEN header ELSE chosen[m - 1] + more(m)
  BY <1>8 DEF Adding
<1>10. 0 \in 0 .. n /\ \A m \in 1 .. n : m \in 0 .. n /\ m # 0
  BY <1>1
<1>11. chosen[0] = header /\ \A m \in 1 .. n : chosen[m] = chosen[m - 1] + more(m)
  BY <1>9, <1>10
<1> QED BY <1>2, <1>11, Zenon DEF n, more, header

(* What goes into the image: all that was merged, in order.                *)
LEMMA GeneratedData ==
  ASSUME LinkInv
  PROVE  /\ Joined(merged_sections, Len(merged_sections), Contents)
         /\ Covers(objects, HeaderSize[output_format], Contents, TotalSize)
<1> DEFINE ms == merged_sections
           n == Len(ms)
           header == HeaderSize[output_format]
<1>1. /\ ms \in Seq(MergedSection) /\ n \in Nat /\ header \in Nat
      /\ output_format \in Formats /\ objects \in Seq(Object)
  BY LastElement DEF LinkInv, LinkerTypeOK, HeaderSize, Formats
<1>2. PICK data :
        /\ data[0] = <<>>
        /\ \A m \in 1 .. n : data[m] = data[m - 1] \o ms[m].data
        /\ Contents = data[n]
  BY <1>1, ContentsEquation
<1>3. PICK total :
        /\ total[0] = header
        /\ \A m \in 1 .. n : total[m] = total[m - 1] + ms[m].size
        /\ TotalSize = total[n]
  BY <1>1, TotalEquation
<1>4. ASSUME NEW m \in 1 .. n
      PROVE  /\ ms[m] \in MergedSection /\ ms[m].data \in Seq(Nat \X Nat)
             /\ TiledIn(objects, ms[m])
             /\ \A k \in 1 .. Len(ms[m].data) : In(objects, ms[m].data[k]) \in Section
  <2>1. ms[m] \in MergedSection /\ TiledIn(objects, ms[m])
    BY <1>1 DEF LinkInv
  <2>2. ASSUME NEW c, IsChunk(objects, c)
        PROVE  In(objects, c) \in Section
    <3>1. objects[c[1]] \in Object
      BY <1>1, <2>2 DEF IsChunk
    <3>2. objects[c[1]].sections \in Seq(Section)
      BY <3>1 DEF Object
    <3> QED BY <2>2, <3>2 DEF IsChunk, In
  <2> QED BY <2>1, <2>2 DEF MergedSection, TiledIn
<1> HIDE DEF ms, n, header
<1> DEFINE Good(m) == /\ Joined(ms, m, data[m])
                      /\ Covers(objects, header, data[m], total[m])
           bad == {m \in 0 .. n : ~Good(m)}
<1>5. Good(0)
  <2>1. Joined(ms, 0, <<>>)
    BY DEF Joined
  <2>2. Along(objects, header, <<>>, [k \in {0} |-> header])
    BY <1>1 DEF Along
  <2>3. Covers(objects, header, <<>>, header)
    BY <2>2 DEF Covers
  <2> QED BY <1>2, <1>3, <2>1, <2>3
<1>6. ASSUME NEW m \in 1 .. n, Good(m - 1)
      PROVE  Good(m)
  <2>1. Joined(ms, m - 1, data[m - 1]) /\ data[m - 1] \in Seq(Nat \X Nat)
    BY <1>6 DEF Joined
  <2>2. m \in Nat \ {0} /\ ms[m].data \in Seq(Nat \X Nat) /\ data[m] = data[m - 1] \o ms[m].data
    <3>1. m \in Nat \ {0}
      BY <1>1
    <3> QED BY <1>2, <1>4, <3>1
  <2>3. Joined(ms, m, data[m])
    BY <2>1, <2>2, JoinedFurther
  <2>4. Covers(objects, header, data[m - 1], total[m - 1])
    BY <1>6
  <2>5. IsSections(objects, data[m - 1]) /\ IsSections(objects, ms[m].data)
    <3>1. \A k \in 1 .. Len(data[m - 1]) : \E i \in 1 .. n : \E a \in 1 .. Len(ms[i].data) :
            data[m - 1][k] = ms[i].data[a]
      <4>1. \A i \in 1 .. m - 1 : i \in 1 .. n
        BY <1>1
      <4> QED BY <2>1, <4>1 DEF Joined
    <3>2. \A i \in 1 .. n : \A a \in 1 .. Len(ms[i].data) : In(objects, ms[i].data[a]) \in Section
      BY <1>4
    <3>3. \A k \in 1 .. Len(data[m - 1]) : In(objects, data[m - 1][k]) \in Section
      BY <3>1, <3>2
    <3> QED BY <2>1, <2>2, <3>2, <3>3, Zenon DEF IsSections
  <2>6. Covers(objects, header, data[m - 1] \o ms[m].data, total[m - 1] + ms[m].size)
    BY <1>1, <1>4, <2>4, <2>5, AlongFurther
  <2> QED BY <1>3, <2>2, <2>3, <2>6
<1> HIDE DEF Good
<1>7. bad = {}
  <2> SUFFICES ASSUME bad # {} PROVE FALSE
    OBVIOUS
  <2>1. bad \subseteq Nat
    BY <1>1
  <2>2. PICK m \in bad : \A j \in bad : m <= j
    <3> HIDE DEF bad
    <3> QED BY <2>1, LeastNumber
  <2>3. m \in 1 .. n /\ ~Good(m)
    BY <1>1, <1>5, <2>2
  <2>4. m - 1 \in 0 .. n /\ ~(m <= m - 1)
    BY <1>1, <2>3
  <2>5. Good(m - 1)
    BY <2>2, <2>4
  <2> QED BY <1>6, <2>3, <2>5
<1>8. n \in 0 .. n
  BY <1>1
<1>9. Good(n)
  BY <1>7, <1>8
<1> QED BY <1>2, <1>3, <1>9 DEF Good, ms, n, header

LEMMA GenerateImage ==
  ASSUME LinkInv, OrderInv, phase = "generate"
  PROVE  IsImage(objects, Len(objects), [format |-> output_format, data |-> Contents], TotalSize)
<1> DEFINE ms == merged_sections
           image == [format |-> output_format, data |-> Contents]
           data == image.data
           n == Len(objects)
<1>1. /\ Joined(ms, Len(ms), data)
      /\ Covers(objects, HeaderSize[image.format], data, TotalSize)
  BY GeneratedData
<1>2. /\ InOrder(objects, ms) /\ NamesDiffer(ms) /\ AllPlaced
      /\ \A m \in 1 .. Len(ms) : TiledIn(objects, ms[m])
      /\ ms \in Seq(MergedSection) /\ n \in Nat /\ Len(ms) \in Nat
  BY LastElement DEF OrderInv, LinkInv, Laying, LinkerTypeOK
<1> HIDE DEF image
<1>3. \A c : ChunkIn(objects, n, c) <=> c \in Nat \X Nat /\ IsChunk(objects, c)
  BY DEF ChunkIn, IsChunk
<1>4. \A m \in 1 .. Len(ms) : \A a \in 1 .. Len(ms[m].data) :
        /\ ChunkIn(objects, n, ms[m].data[a])
        /\ In(objects, ms[m].data[a]).name = ms[m].name
  <2> TAKE m \in 1 .. Len(ms)
  <2> TAKE a \in 1 .. Len(ms[m].data)
  <2>1. ms[m] \in MergedSection
    BY <1>2
  <2>2. ms[m].data[a] \in Nat \X Nat
    BY <2>1 DEF MergedSection
  <2> QED BY <1>2, <1>3, <2>2 DEF TiledIn, InOrder
<1> HIDE DEF ms, n
<1>5. \A c : ChunkIn(objects, n, c) =>
        \E m \in 1 .. Len(ms) : /\ ms[m].name = In(objects, c).name
                                /\ \E a \in 1 .. Len(ms[m].data) : ms[m].data[a] = c
  BY <1>2, <1>3 DEF AllPlaced, PlacedIn, ms
<1>6. \A k \in 1 .. Len(data) : ChunkIn(objects, n, data[k])
  <2> TAKE k \in 1 .. Len(data)
  <2>1. PICK i \in 1 .. Len(ms) : \E a \in 1 .. Len(ms[i].data) : data[k] = ms[i].data[a]
    BY <1>1 DEF Joined
  <2> QED BY <1>4, <2>1
<1>7. \A c : ChunkIn(objects, n, c) => \E k \in 1 .. Len(data) : data[k] = c
  <2> TAKE c
  <2> HAVE ChunkIn(objects, n, c)
  <2>1. PICK i \in 1 .. Len(ms) : \E a \in 1 .. Len(ms[i].data) : ms[i].data[a] = c
    BY <1>5
  <2>2. PICK a \in 1 .. Len(ms[i].data) : ms[i].data[a] = c
    BY <2>1
  <2>3. \E k \in 1 .. Len(data) : data[k] = ms[i].data[a]
    BY <1>1 DEF Joined
  <2> QED BY <2>2, <2>3
(* The first input section of a name is the first of its merged section.   *)
<1>8. ASSUME NEW i \in 1 .. Len(ms), NEW j \in 1 .. Len(ms), i < j,
             NEW c, In(objects, c).name = ms[i].name, NEW d, In(objects, d).name = ms[j].name
      PROVE  OrderIn(objects, n, c, d)
  <2> DEFINE first == ms[i].data[1]
  <2>1. ms[i].name # ms[j].name
    BY <1>2, <1>8 DEF NamesDiffer
  <2>2. \A m \in 1 .. Len(ms) : 1 \in 1 .. Len(ms[m].data)
    <3> TAKE m \in 1 .. Len(ms)
    <3>1. ms[m].data # <<>> /\ ms[m] \in MergedSection
      BY <1>2 DEF InOrder
    <3>2. ms[m].data \in Seq(Nat \X Nat)
      BY <3>1 DEF MergedSection
    <3> QED BY <3>1, <3>2, LastElement
  <2>3. ChunkIn(objects, n, first) /\ In(objects, first).name = ms[i].name
    BY <1>4, <2>2
  <2>4. Before(first, ms[j].data[1])
    BY <1>2, <1>8 DEF InOrder
  <2>5. ASSUME NEW e, ChunkIn(objects, n, e), In(objects, e).name = ms[j].name
        PROVE  Before(first, e)
    <3>1. PICK m \in 1 .. Len(ms) : /\ ms[m].name = In(objects, e).name
                                   /\ \E a \in 1 .. Len(ms[m].data) : ms[m].data[a] = e
      BY <1>5, <2>5
    <3>2. m = j
      BY <1>2, <2>5, <3>1 DEF NamesDiffer
    <3>3. PICK a \in 1 .. Len(ms[j].data) : ms[j].data[a] = e
      BY <3>1, <3>2
    <3>4. a = 1 \/ Before(ms[j].data[1], e)
      <4>1. CASE 1 < a
        BY <1>2, <2>2, <3>3, <4>1 DEF InOrder
      <4>2. a = 1 \/ 1 < a
        OBVIOUS
      <4> QED BY <4>1, <4>2
    <3>5. ChunkIn(objects, n, ms[j].data[1])
      BY <1>4, <2>2
    <3>6. first \in Nat \X Nat /\ ms[j].data[1] \in Nat \X Nat /\ e \in Nat \X Nat
      BY <2>3, <2>5, <3>5 DEF ChunkIn
    <3> HIDE DEF first
    <3>7. \A x, y, z \in Nat \X Nat : Before(x, y) /\ Before(y, z) => Before(x, z)
      BY DEF Before
    <3> QED BY <2>4, <3>3, <3>4, <3>6, <3>7
  <2> HIDE DEF first
  <2> QED BY <1>8, <2>1, <2>3, <2>5 DEF OrderIn
<1>9. ASSUME NEW k \in 1 .. Len(data), NEW l \in 1 .. Len(data), k < l
      PROVE  OrderIn(objects, n, data[k], data[l])
  <2>1. PICK i, j \in 1 .. Len(ms) : \E a \in 1 .. Len(ms[i].data), b \in 1 .. Len(ms[j].data) :
          /\ data[k] = ms[i].data[a] /\ data[l] = ms[j].data[b]
          /\ i < j \/ (i = j /\ a < b)
    BY <1>1, <1>9 DEF Joined
  <2>2. PICK a \in 1 .. Len(ms[i].data), b \in 1 .. Len(ms[j].data) :
          /\ data[k] = ms[i].data[a] /\ data[l] = ms[j].data[b]
          /\ i < j \/ (i = j /\ a < b)
    BY <2>1
  <2>3. In(objects, data[k]).name = ms[i].name /\ In(objects, data[l]).name = ms[j].name
    BY <1>4, <2>2
  <2>4. CASE i < j
    BY <1>8, <2>3, <2>4
  <2>5. CASE i = j /\ a < b
    <3>1. Before(data[k], data[l])
      BY <1>2, <2>2, <2>5 DEF InOrder
    <3> QED BY <2>3, <2>5, <3>1 DEF OrderIn
  <2> QED BY <2>2, <2>4, <2>5
<1>10. data \in Seq(Nat \X Nat)
  BY <1>1 DEF Joined
<1> QED BY <1>1, <1>6, <1>7, <1>9, <1>10 DEF IsImage, image, n

LEMMA ImageStep ==
  ASSUME LinkInv, OrderInv, ImageInv, [Next]_vars
  PROVE  ImageInv'
<1>1. objects \in Seq(Object) /\ Len(objects) \in Nat
  BY LastElement DEF LinkInv, LinkerTypeOK
<1>2. CASE generate_output
  <2>1. /\ phase = "generate" /\ objects' = objects
        /\ output_data' = [format |-> output_format, data |-> Contents] /\ output_size' = TotalSize
    BY <1>2 DEF generate_output, inputs
  <2>2. Len(objects) \in 1 .. Len(objects)
    BY <1>1, <2>1 DEF OrderInv
  <2>3. IsImage(objects, Len(objects), output_data', output_size')
    BY <2>1, GenerateImage
  <2> QED BY <2>1, <2>2, <2>3 DEF ImageInv
<1>3. CASE output_data' = NoOutput
  BY <1>3 DEF ImageInv
<1>4. CASE /\ UNCHANGED output
           /\ Len(objects') \in Nat /\ Len(objects) <= Len(objects')
           /\ \A i \in 1 .. Len(objects) :
                /\ Len(objects'[i].sections) = Len(objects[i].sections)
                /\ \A s \in 1 .. Len(objects[i].sections) :
                     /\ objects'[i].sections[s].name = objects[i].sections[s].name
                     /\ objects'[i].sections[s].size = objects[i].sections[s].size
  <2> SUFFICES ASSUME output_data # NoOutput
               PROVE  \E n \in 1 .. Len(objects') : IsImage(objects', n, output_data, output_size)
    BY <1>4 DEF ImageInv, output
  <2>1. PICK n \in 1 .. Len(objects) : IsImage(objects, n, output_data, output_size)
    BY DEF ImageInv
  <2>2. IsImage(objects', n, output_data, output_size)
    BY <1>1, <1>4, <2>1, ImageKept
  <2>3. n \in 1 .. Len(objects')
    BY <1>1, <1>4
  <2> QED BY <2>2, <2>3
<1>5. generate_output \/ output_data' = NoOutput \/ UNCHANGED output
  <2>1. ASSUME NEW ext \in Extensions, linker_add_object(ext) PROVE UNCHANGED output
    BY <2>1 DEF linker_add_object
  <2>2. ASSUME NEW fmt \in Formats, linker_set_output_format(fmt) PROVE UNCHANGED output
    BY <2>2 DEF linker_set_output_format
  <2>3. ASSUME NEW name \in Entries, linker_set_entry(name) PROVE UNCHANGED output
    BY <2>3 DEF linker_set_entry
  <2>4. GenerateFails \/ linker_destroy => output_data' = NoOutput
    BY DEF GenerateFails, linker_destroy
  <2>5. resolve_symbols \/ merge_sections \/ MergeFails \/ MergeEnds \/ layout_sections \/ LayoutEnds
          => UNCHANGED output
    BY DEF resolve_symbols, merge_sections, MergeFails, MergeEnds, layout_sections, LayoutEnds
  <2>6. UNCHANGED vars => UNCHANGED output
    BY DEF vars
  <2> QED BY <2>1, <2>2, <2>3, <2>4, <2>5, <2>6 DEF Next
<1>6. \/ linker_destroy
      \/ UNCHANGED objects
      \/ \E ext \in DOMAIN Parsed : objects' = Append(objects, Parsed[ext])
      \/ phase = "merge" /\ input[1] <= Len(objects) /\ OffsetSet(Target(SectionAt(input).name))
  <2>1. ASSUME NEW ext \in Extensions, linker_add_object(ext)
        PROVE  UNCHANGED objects \/ (ext \in DOMAIN Parsed /\ objects' = Append(objects, Parsed[ext]))
    BY <2>1 DEF linker_add_object
  <2>2. ASSUME NEW fmt \in Formats, linker_set_output_format(fmt) PROVE UNCHANGED objects
    BY <2>2 DEF linker_set_output_format
  <2>3. ASSUME NEW name \in Entries, linker_set_entry(name) PROVE UNCHANGED objects
    BY <2>3 DEF linker_set_entry
  <2>4. resolve_symbols \/ MergeEnds \/ layout_sections \/ LayoutEnds \/ generate_output \/ GenerateFails
          => UNCHANGED objects
    BY DEF resolve_symbols, MergeEnds, layout_sections, LayoutEnds, generate_output, GenerateFails, inputs
  <2>5. merge_sections =>
          phase = "merge" /\ input[1] <= Len(objects) /\ OffsetSet(Target(SectionAt(input).name))
    BY DEF merge_sections
  <2>6. MergeFails =>
          \/ UNCHANGED objects
          \/ phase = "merge" /\ input[1] <= Len(objects) /\ OffsetSet(Target(SectionAt(input).name))
    BY DEF MergeFails
  <2>7. UNCHANGED vars => UNCHANGED objects
    BY DEF vars, inputs
  <2> QED BY <2>1, <2>2, <2>3, <2>4, <2>5, <2>6, <2>7 DEF Next
<1> DEFINE Kept ==
             /\ Len(objects') \in Nat /\ Len(objects) <= Len(objects')
             /\ \A i \in 1 .. Len(objects) :
                  /\ Len(objects'[i].sections) = Len(objects[i].sections)
                  /\ \A s \in 1 .. Len(objects[i].sections) :
                       /\ objects'[i].sections[s].name = objects[i].sections[s].name
                       /\ objects'[i].sections[s].size = objects[i].sections[s].size
<1>7. CASE UNCHANGED objects
  <2>1. Kept
    BY <1>1, <1>7
  <2> QED BY <1>2, <1>3, <1>4, <1>5, <2>1, Zenon
<1>8. ASSUME NEW ext \in DOMAIN Parsed, objects' = Append(objects, Parsed[ext])
      PROVE  Kept
  <2>1. Parsed[ext] \in Object
    BY ParsedAssumption
  <2>2. Len(objects') = Len(objects) + 1 /\ \A i \in 1 .. Len(objects) : objects'[i] = objects[i]
    BY <1>1, <1>8, <2>1, ElementAppended
  <2> QED BY <1>1, <2>2
<1>9. ASSUME phase = "merge", input[1] <= Len(objects), OffsetSet(Target(SectionAt(input).name))
      PROVE  Kept
  <2> DEFINE name == SectionAt(input).name
             W == WithTarget(name)
             t == Target(name)
             v == W[t].size
  <2>1. IsChunk(objects, input) /\ name \in Names
    BY <1>9, InputIsChunk DEF Section
  <2>2. merged_sections \in Seq(MergedSection) /\ NamesDiffer(merged_sections)
    BY DEF LinkInv, LinkerTypeOK
  <2>3. W \in Seq(MergedSection) /\ t \in 1 .. Len(W)
    BY <2>1, <2>2, TargetShape
  <2>4. W[t] \in MergedSection
    BY <2>3
  <2>5. v \in Nat
    BY <2>4 DEF MergedSection
  <2>6. objects' = [objects EXCEPT ![input[1]].sections[input[2]].offset = v]
    BY <1>9 DEF OffsetSet
  <2> HIDE DEF v, W, t, name
  <2>7. input[1] \in 1 .. Len(objects) /\ input[2] \in 1 .. Len(objects[input[1]].sections)
    BY <2>1 DEF IsChunk
  <2>8. /\ objects' \in Seq(Object) /\ Len(objects') = Len(objects)
        /\ \A j \in 1 .. Len(objects) :
             /\ objects'[j].symbols = objects[j].symbols
             /\ Len(objects'[j].sections) = Len(objects[j].sections)
             /\ \A s \in 1 .. Len(objects[j].sections) :
                  /\ objects'[j].sections[s].name = objects[j].sections[s].name
                  /\ objects'[j].sections[s].size = objects[j].sections[s].size
                  /\ objects'[j].sections[s].offset =
                       IF j = input[1] /\ s = input[2] THEN v ELSE objects[j].sections[s].offset
    BY <1>1, <2>5, <2>6, <2>7, ObjectsUpdate
  <2> QED BY <1>1, <2>8
<1>10. linker_destroy => output_data' = NoOutput
  BY DEF linker_destroy
<1>11. Kept => ImageInv'
  BY <1>2, <1>3, <1>4, <1>5, Zenon
<1> HIDE DEF Kept
<1> QED BY <1>3, <1>6, <1>7, <1>8, <1>9, <1>10, <1>11, Zenon

LEMMA Unlinked ==
  ASSUME linker_init
  PROVE  OrderInv /\ ImageInv
BY DEF linker_init, OrderInv, ImageInv, Merging, Laying


(* For all object files, names and limits: an image that was generated     *)
(* holds each input section of the files added so far once, the merged     *)
(* sections one after another and each in the order its inputs were added, *)
(* and its size is that of the header of its format and these sections.    *)
THEOREM ImageCorrect == Spec => []ImageOfAdded
<1>1. linker_init => LinkInv /\ OrderInv /\ ImageInv
  BY Empty, Unlinked
<1>2. LinkInv /\ OrderInv /\ ImageInv /\ [Next]_vars => (LinkInv /\ OrderInv /\ ImageInv)'
  BY Inductive, OrderStep, ImageStep
<1>3. LinkInv /\ OrderInv /\ ImageInv => ImageOfAdded
  BY ImageImplied
<1> QED BY <1>1, <1>2, <1>3, PTL DEF Spec
=============================================================================
