-------------------------------- MODULE Linker --------------------------------
(***************************************************************************)
(* The linker (src/linker/linker.c), a library of its own: object files    *)
(* are added, sections of the same name are concatenated, the results laid *)
(* out one after another, and the image put together in a chosen format.   *)
(*                                                                         *)
(* The loops of linker_link that can fail half-way, or whose result a      *)
(* later loop reads, are one step per iteration. The bytes of a section    *)
(* are abstracted to where they come from: <<object, section>>. What the   *)
(* parsers of object files deliver is a parameter, because they are stubs: *)
(* Stubs is what they deliver today.                                       *)
(***************************************************************************)
EXTENDS Integers, Sequences

CONSTANTS
  Extensions,     (* The extensions of the files given to add_object,       *)
  Parsed,         (* what is in an object file, by its known extension,     *)
  Names,          (* the names of sections and symbols,                     *)
  Entries,        (* those given to set_entry,                              *)
  MaxObjects,     (* MAX_OBJECTS                                            *)
  MaxSections     (* and MAX_SECTIONS.                                      *)

(* The formats, each with the size of its header. *)
HeaderSize == [elf |-> 64, pe |-> 512, macho |-> 256]
Formats == {"elf", "pe", "macho"}

Symbol == [name : Names, section : Nat \ {0}, value : Nat, is_defined : BOOLEAN, is_global : BOOLEAN]
Section == [name : Names, size : Nat \ {0}, offset : Nat]
MergedSection == [name : Names, size : Nat, data : Seq(Nat \X Nat)]
Object == [sections : Seq(Section), symbols : Seq(Symbol)]

(* An object file has a section, and its symbols are in sections it has.   *)
ASSUME ParsedAssumption ==
  /\ DOMAIN Parsed \subseteq Extensions
  /\ \A ext \in DOMAIN Parsed :
       /\ Parsed[ext] \in Object
       /\ Len(Parsed[ext].sections) > 0
       /\ \A s \in 1 .. Len(Parsed[ext].symbols) :
            Parsed[ext].symbols[s].section \in 1 .. Len(Parsed[ext].sections)

(* The name of the entry when none is given: entry_symbol is NULL.          *)
NoEntry == ""

ASSUME NamesAssumption == NoEntry \in Names /\ Entries \subseteq Names
ASSUME MaximaAssumption == MaxObjects \in Nat \ {0} /\ MaxSections \in Nat \ {0}

(* What the three parsers deliver: one section with one symbol.            *)
Stub(text, main) ==
  [sections |-> <<[name |-> text, size |-> 64, offset |-> 0]>>,
   symbols |-> <<[name |-> main, section |-> 1, value |-> 0,
                  is_defined |-> TRUE, is_global |-> TRUE]>>]

parse_elf_object == Stub(".text", "main")
parse_pe_object == Stub(".text", "main")
parse_macho_object == Stub("__text", "_main")

Stubs ==
  [ext \in {".o", ".elf", ".obj", ".macho"} |->
     CASE ext \in {".o", ".elf"} -> parse_elf_object
       [] ext = ".obj" -> parse_pe_object
       [] ext = ".macho" -> parse_macho_object]

VARIABLES
  objects, output_format, entry_symbol, entry_address,
  merged_sections,  (* Their offset_in_output is in addresses, set later.   *)
  addresses,
  output_data, output_size,
  phase,            (* The loop of linker_link that is running, or "idle",  *)
  input,            (* the input section it is at: <<object, section>>,     *)
  current_address

inputs == <<objects, output_format, entry_symbol>>
output == <<output_data, output_size>>
vars == <<inputs, entry_address, merged_sections, addresses, output, phase, input, current_address>>

Base == 4194304         (* 0x400000 *)
Placeholder == -1       (* (size_t)-1 *)
NoOutput == [format |-> "none", data |-> <<>>]

linker_init ==
  /\ objects = <<>> /\ output_format = "elf" /\ entry_symbol = NoEntry /\ entry_address = 0
  /\ merged_sections = <<>> /\ addresses = <<>>
  /\ output_data = NoOutput /\ output_size = 0
  /\ phase = "idle" /\ input = <<1, 1>> /\ current_address = Base

Idle == phase = "idle"
WorkKept == UNCHANGED <<phase, input, current_address, merged_sections, addresses>>

-----------------------------------------------------------------------------
(* What is set up before linking.                                          *)

linker_add_object(ext) ==
  /\ Idle
  /\ objects' = IF Len(objects) < MaxObjects /\ ext \in DOMAIN Parsed
                THEN Append(objects, Parsed[ext])
                ELSE objects
  /\ WorkKept /\ UNCHANGED <<output_format, entry_symbol, entry_address, output>>

linker_set_output_format(fmt) ==
  /\ Idle
  /\ output_format' = fmt
  /\ WorkKept /\ UNCHANGED <<objects, entry_symbol, entry_address, output>>

linker_set_entry(name) ==
  /\ Idle
  /\ entry_symbol' = name
  /\ WorkKept /\ UNCHANGED <<objects, output_format, entry_address, output>>

-----------------------------------------------------------------------------
(* linker_link, phase by phase.                                            *)

Defined(object, name) ==
  \E s \in 1 .. Len(object.symbols) :
    LET symbol == object.symbols[s]
    IN symbol.is_defined /\ symbol.is_global /\ symbol.name = name

EntryFound == \E i \in 1 .. Len(objects) : Defined(objects[i], entry_symbol)

(* Wrong: the merged sections of the last link are still there.            *)
ResolveKeepsMerged ==
  /\ Idle
  /\ Len(objects) > 0
  /\ EntryFound \/ entry_symbol = NoEntry
  /\ entry_address' = IF EntryFound THEN Placeholder ELSE entry_address
  /\ phase' = "merge"
  /\ input' = <<1, 1>>
  /\ UNCHANGED <<inputs, merged_sections, addresses, output, current_address>>

(* Phase 1; the merging starts when it succeeds, and link fails otherwise. *)
resolve_symbols ==
  /\ Idle
  /\ Len(objects) > 0
  /\ EntryFound \/ entry_symbol = NoEntry
  /\ entry_address' = IF EntryFound THEN Placeholder ELSE entry_address
  /\ phase' = "merge"
  /\ merged_sections' = <<>>
  /\ input' = <<1, 1>>
  /\ UNCHANGED <<inputs, addresses, output, current_address>>

SectionAt(chunk) == objects[chunk[1]].sections[chunk[2]]

Merged(name) == {m \in 1 .. Len(merged_sections) : merged_sections[m].name = name}
FirstOf(set) == CHOOSE m \in set : \A n \in set : m <= n

(* The merged section for a name, where it is or where it is to be added,  *)
(* and the merged sections with it.                                        *)
Target(name) == IF Merged(name) = {} THEN Len(merged_sections) + 1 ELSE FirstOf(Merged(name))
WithTarget(name) ==
  IF Merged(name) = {}
  THEN Append(merged_sections, [name |-> name, size |-> 0, data |-> <<>>])
  ELSE merged_sections

TooMany == Merged(SectionAt(input).name) = {} /\ Len(merged_sections) >= MaxSections

(* Wrong: the offset is that of the end.                                   *)
OffsetSetAfter(m) ==
  objects' = [objects EXCEPT ![input[1]].sections[input[2]].offset =
                WithTarget(SectionAt(input).name)[m].size + SectionAt(input).size]

OffsetSet(m) ==
  objects' = [objects EXCEPT ![input[1]].sections[input[2]].offset =
                WithTarget(SectionAt(input).name)[m].size]

AppendSection(m) ==
  merged_sections' =
    [WithTarget(SectionAt(input).name) EXCEPT
       ![m].size = @ + SectionAt(input).size,
       ![m].data = Append(@, input)]

NextInput ==
  IF input[2] < Len(objects[input[1]].sections)
  THEN <<input[1], input[2] + 1>>
  ELSE <<input[1] + 1, 1>>

(* Phase 2, for one input section.                                         *)
merge_sections ==
  /\ phase = "merge"
  /\ input[1] <= Len(objects)
  /\ ~TooMany
  /\ OffsetSet(Target(SectionAt(input).name))
  /\ AppendSection(Target(SectionAt(input).name))
  /\ input' = NextInput
  /\ UNCHANGED <<output_format, entry_symbol, entry_address, addresses, output, phase, current_address>>

(* Wrong: link goes on with what was merged.                               *)
MergeGoesOn ==
  /\ phase = "merge"
  /\ input[1] <= Len(objects)
  /\ phase' = "layout"
  /\ addresses' = <<>>
  /\ current_address' = Base
  /\ UNCHANGED <<inputs, entry_address, merged_sections, output, input>>

(* There are too many sections already, or no memory to append this one.   *)
MergeFails ==
  /\ phase = "merge"
  /\ input[1] <= Len(objects)
  /\ IF TooMany
     THEN UNCHANGED <<objects, merged_sections>>
     ELSE /\ OffsetSet(Target(SectionAt(input).name))
          /\ merged_sections' = WithTarget(SectionAt(input).name)
  /\ phase' = "idle"
  /\ UNCHANGED <<output_format, entry_symbol, entry_address, addresses, output, input, current_address>>

MergeEnds ==
  /\ phase = "merge"
  /\ input[1] > Len(objects)
  /\ phase' = "layout"
  /\ addresses' = <<>>
  /\ current_address' = Base
  /\ UNCHANGED <<inputs, entry_address, merged_sections, output, input>>

Aligned(address) == IF address % 16 = 0 THEN address ELSE address + (16 - (address % 16))

(* Wrong: the next address leaves no room for the section.                 *)
LayoutWithoutSize ==
  /\ phase = "layout"
  /\ Len(addresses) < Len(merged_sections)
  /\ addresses' = Append(addresses, current_address)
  /\ current_address' = Aligned(current_address + 1)
  /\ UNCHANGED <<inputs, entry_address, merged_sections, output, phase, input>>

(* Phase 3, for one merged section.                                        *)
layout_sections ==
  /\ phase = "layout"
  /\ Len(addresses) < Len(merged_sections)
  /\ addresses' = Append(addresses, current_address)
  /\ current_address' = Aligned(current_address + merged_sections[Len(addresses) + 1].size)
  /\ UNCHANGED <<inputs, entry_address, merged_sections, output, phase, input>>

(* The first symbol of the entry's name in an object, the last such object. *)
Named(i) == {s \in 1 .. Len(objects[i].symbols) : objects[i].symbols[s].name = entry_symbol}
Candidates == {i \in 1 .. Len(objects) : Named(i) # {}}
LastOf(set) == CHOOSE m \in set : \A n \in set : n <= m

(* Wrong: the merged section is taken to be the first.                     *)
AddressFromBase(i, symbol) ==
  Base + SectionAt(<<i, symbol.section>>).offset + symbol.value

AddressOf(i, symbol) ==
  addresses[FirstOf(Merged(SectionAt(<<i, symbol.section>>).name))]
    + SectionAt(<<i, symbol.section>>).offset + symbol.value

LayoutEnds ==
  /\ phase = "layout"
  /\ Len(addresses) = Len(merged_sections)
  /\ entry_address' =
       IF entry_address = Placeholder /\ Candidates # {}
       THEN AddressOf(LastOf(Candidates), objects[LastOf(Candidates)].symbols[FirstOf(Named(LastOf(Candidates)))])
       ELSE entry_address
  /\ phase' = "generate"
  /\ UNCHANGED <<inputs, merged_sections, addresses, output, input, current_address>>

(* Phase 4 has nothing to do: no parser delivers relocations. Phase 5, for *)
(* the three formats.                                                      *)
TotalSize ==
  LET total[m \in 0 .. Len(merged_sections)] ==
        IF m = 0 THEN HeaderSize[output_format] ELSE total[m - 1] + merged_sections[m].size
  IN total[Len(merged_sections)]

Contents ==
  LET data[m \in 0 .. Len(merged_sections)] ==
        IF m = 0 THEN <<>> ELSE data[m - 1] \o merged_sections[m].data
  IN data[Len(merged_sections)]

generate_output ==
  /\ phase = "generate"
  /\ output_data' = [format |-> output_format, data |-> Contents]
  /\ output_size' = TotalSize
  /\ phase' = "idle"
  /\ UNCHANGED <<inputs, entry_address, merged_sections, addresses, input, current_address>>

GenerateFails ==
  /\ phase = "generate"
  /\ output_data' = NoOutput
  /\ phase' = "idle"
  /\ UNCHANGED <<inputs, entry_address, merged_sections, addresses, output_size, input, current_address>>

linker_destroy ==
  /\ Idle
  /\ objects' = <<>> /\ output_format' = "elf" /\ entry_symbol' = NoEntry /\ entry_address' = 0
  /\ merged_sections' = <<>> /\ addresses' = <<>>
  /\ output_data' = NoOutput /\ output_size' = 0
  /\ UNCHANGED <<phase, input, current_address>>

Next ==
  \/ \E ext \in Extensions : linker_add_object(ext)
  \/ \E fmt \in Formats : linker_set_output_format(fmt)
  \/ \E name \in Entries : linker_set_entry(name)
  \/ resolve_symbols
  \/ merge_sections \/ MergeFails \/ MergeEnds
  \/ layout_sections \/ LayoutEnds
  \/ generate_output \/ GenerateFails
  \/ linker_destroy

Spec == linker_init /\ [][Next]_vars

-----------------------------------------------------------------------------
(* The input sections of the first n objects, and of all, and their order. *)
ChunksOf(n) == UNION {{i} \X (1 .. Len(objects[i].sections)) : i \in 1 .. n}
Chunks == ChunksOf(Len(objects))
Before(c, d) == c[1] < d[1] \/ (c[1] = d[1] /\ c[2] < d[2])

End(chunk) == SectionAt(chunk).offset + SectionAt(chunk).size

(* Every variable has its type: the lists are within their limits, and     *)
(* while link runs the section it is at is one of an object, or past the   *)
(* last of them.                                                           *)
LinkerTypeOK ==
  /\ objects \in Seq(Object) /\ Len(objects) <= MaxObjects
  /\ output_format \in Formats /\ entry_symbol \in Names
  /\ entry_address \in Nat \union {Placeholder}
  /\ merged_sections \in Seq(MergedSection)
  /\ Len(merged_sections) <= MaxSections
  /\ addresses \in Seq(Nat) /\ current_address \in Nat
  /\ phase \in {"idle", "merge", "layout", "generate"}
  /\ phase = "merge" => input \in Chunks \union {<<Len(objects) + 1, 1>>}
  /\ phase = "layout" => Len(addresses) <= Len(merged_sections)
  /\ phase = "generate" => Len(addresses) = Len(merged_sections)

(* merge_sections remembers in an input section where its bytes are in the *)
(* merged one: the input sections follow one another without a gap or an   *)
(* overlap, and end where the merged section does. This is so at any time, *)
(* also when merging failed half-way and objects were added since.         *)
Tiled(section) ==
  LET data == section.data
  IN /\ \A k \in 1 .. Len(data) :
          /\ data[k] \in Chunks
          /\ SectionAt(data[k]).offset = IF k = 1 THEN 0 ELSE End(data[k - 1])
     /\ section.size = IF data = <<>> THEN 0 ELSE End(data[Len(data)])

ChunksTile == \A m \in 1 .. Len(merged_sections) : Tiled(merged_sections[m])

(* While link lays out sections, those that have an address have one from  *)
(* the base on, a multiple of 16, and end before the next begins.          *)
SectionsDisjoint ==
  phase \in {"layout", "generate"} =>
    \A m \in 1 .. Len(addresses) :
      /\ addresses[m] >= Base /\ addresses[m] % 16 = 0
      /\ \A n \in 1 .. Len(addresses) :
           m < n => addresses[m] + merged_sections[m].size <= addresses[n]

(* No input section is lost, or merged twice: before the layout starts     *)
(* each one is in the merged section of its name, which is the only one of *)
(* that name.                                                              *)
SectionsPlaced ==
  phase \in {"layout", "generate"} =>
    \A chunk \in Chunks :
      \E m \in 1 .. Len(merged_sections) :
        /\ Merged(SectionAt(chunk).name) = {m}
        /\ \E k \in 1 .. Len(merged_sections[m].data) :
             merged_sections[m].data[k] = chunk

(* When the image is generated, an entry point that was found has the      *)
(* address of a symbol of its name: where the section of that symbol ended *)
(* up, whatever was merged and laid out in front of it.                    *)
EntryAtSymbol ==
  phase = "generate" /\ EntryFound =>
    \E m \in 1 .. Len(merged_sections) :
      \E k \in 1 .. Len(merged_sections[m].data) :
        LET chunk == merged_sections[m].data[k]
        IN \E s \in Named(chunk[1]) :
             LET symbol == objects[chunk[1]].symbols[s]
             IN /\ symbol.section = chunk[2]
                /\ entry_address = addresses[m] + SectionAt(chunk).offset + symbol.value

(* In an image of the first n objects sections come in the order in which  *)
(* their names appear, and the input sections of a name in their own.      *)
BeforeInImage(n, c, d) ==
  IF SectionAt(c).name = SectionAt(d).name
  THEN Before(c, d)
  ELSE \E first \in ChunksOf(n) :
         /\ SectionAt(first).name = SectionAt(c).name
         /\ \A e \in ChunksOf(n) : SectionAt(e).name = SectionAt(d).name => Before(first, e)

SizeOf(header, data) ==
  LET end[k \in 0 .. Len(data)] ==
        IF k = 0 THEN header ELSE end[k - 1] + SectionAt(data[k]).size
  IN end[Len(data)]

(* Whatever failed before or since, an image there is to write is that of  *)
(* the objects that had been added when it was generated: it holds each of *)
(* their sections, in the order above, which lets none be there twice, and *)
(* is as large as its header and all of them.                              *)
ImageOfAdded ==
  output_data # NoOutput =>
    LET data == output_data.data
    IN \E n \in 1 .. Len(objects) :
         /\ {data[k] : k \in 1 .. Len(data)} = ChunksOf(n)
         /\ \A k, l \in 1 .. Len(data) : k < l => BeforeInImage(n, data[k], data[l])
         /\ output_size = SizeOf(HeaderSize[output_data.format], data)
=============================================================================
