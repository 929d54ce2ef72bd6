--------------------------- MODULE SemanticChunking ---------------------------
(***************************************************************************)
(* How the chunking stage cuts a document into the units retrieval works   *)
(* on (ingestion/semantic_chunking/assembler.py). A step is one iteration  *)
(* of the loop of _group_blocks; Chunks is what assemble_semantic_chunks   *)
(* makes of the blocks read so far, were they all.                         *)
(*                                                                         *)
(* A block is its type and the lengths of its parts: the rows of a table,  *)
(* the items of a list, the one text of a paragraph or of a heading. The   *)
(* headings of an earlier chunk put in front of a later one, page numbers  *)
(* and the other metadata of a chunk are left out.                         *)
(***************************************************************************)
EXTENDS Naturals, SequencesExt

CONSTANTS
    Blocks,     \* the blocks a document may be made of
    MaxBlocks,  \* bound: blocks of a document
    Least, Preferred, Soft, Absolute,  \* thresholds of SemanticChunkingSettings
    MaxMerge,   \* paragraphs merged into one chunk
    TableHead   \* length of the header line of a table

VARIABLES
    doc,        \* the blocks read
    groups,     \* closed groups of positions in doc
    current,    \* the group that is open
    size,       \* what the code takes for its size
    awaiting    \* the open group is a heading without text

chunkVars == <<doc, groups, current, size, awaiting>>

-----------------------------------------------------------------------------
(* Sizes as render_block leaves them: rows are two characters apart, items *)
(* one, blocks two.                                                        *)

Gap == 2
Sum(s) ==
    LET sum[k \in 0..Len(s)] == IF k = 0 THEN 0 ELSE sum[k - 1] + s[k]
    IN  sum[Len(s)]
Size(b) == Sum(b.parts) + (Len(b.parts) - 1) * (IF b.kind = "table" THEN 2 ELSE 1)
Kind(i) == doc[i].kind
Sizes(group) == Sum([k \in DOMAIN group |-> Size(doc[group[k]])])

(* A piece of a chunk: some consecutive parts of a block.                  *)
Piece(i, first, last) == [block |-> i, first |-> first, last |-> last]
Whole(i) == Piece(i, 1, Len(doc[i].parts))

-----------------------------------------------------------------------------
(* Grouping                                                                *)

Paragraphs == Len(SelectSeq(current, LAMBDA i : Kind(i) = "paragraph"))

(* Whether the open group is closed before a block joins it, for           *)
(* thresholds in increasing order. A group that is a heading alone is      *)
(* awaiting, and is not asked.                                             *)
ShouldClose(b) ==
    LET combined == size + Size(b) + Gap
        full == b.kind = "paragraph" /\ Paragraphs >= MaxMerge
    IN  \/ b.kind = "table"
        \/ b.kind = "list" /\ Paragraphs > 0
        \/ combined <= Soft /\ full
        \/ combined > Preferred /\ (b.kind = "list" \/ size >= Least)
        \/ combined > Absolute

Flushed == IF current = <<>> THEN groups ELSE Append(groups, current)
Position == Len(doc) + 1

(* The block begins a group, joins the open one, or is a group.            *)
Open(b) ==
    /\ groups' = Flushed
    /\ current' = <<Position>> /\ size' = Size(b)
Join(b) ==
    /\ groups' = groups
    /\ current' = Append(current, Position) /\ size' = size + Size(b)
Alone ==
    /\ groups' = Append(Flushed, <<Position>>)
    /\ current' = <<>> /\ size' = 0

(* Mutant: a heading replaces one that still waits for its text.           *)
HeadingReplaces(b) ==
    /\ b.kind = "heading" /\ awaiting' = TRUE
    /\ groups' = (IF awaiting THEN groups ELSE Flushed)
    /\ current' = <<Position>> /\ size' = Size(b)

Heading(b) == b.kind = "heading" /\ Open(b) /\ awaiting' = TRUE

(* Mutant: the first block after a heading is like any other.              *)
BodyLikeAny(b) ==
    /\ awaiting /\ b.kind # "heading" /\ awaiting' = FALSE
    /\ IF ~ShouldClose(b) THEN Join(b)
         ELSE IF Size(b) > Absolute THEN Alone ELSE Open(b)

Body(b) ==
    /\ awaiting /\ b.kind # "heading" /\ awaiting' = FALSE
    /\ IF b.kind = "table" /\ size + Size(b) > Preferred THEN Alone ELSE Join(b)

Following(b) ==
    /\ ~awaiting /\ b.kind # "heading" /\ awaiting' = FALSE
    /\ IF current # <<>> /\ ~ShouldClose(b)
         THEN Join(b)
         ELSE IF Size(b) > Absolute THEN Alone ELSE Open(b)

Read(b) ==
    /\ Len(doc) < MaxBlocks
    /\ doc' = Append(doc, b)
    /\ Heading(b) \/ Body(b) \/ Following(b)

Init ==
    /\ doc = <<>> /\ groups = <<>> /\ current = <<>>
    /\ size = 0 /\ awaiting = FALSE
Next == \E b \in Blocks : Read(b)
Spec == Init /\ [][Next]_chunkVars

-----------------------------------------------------------------------------
(* Splitting                                                               *)

(* Rows and items in batches of the preferred size. Each row is measured   *)
(* with a header of its own, and the header counts once more.              *)
Header(i) == IF Kind(i) = "table" THEN TableHead ELSE 0
AddPart(i, acc, j) ==
    LET more == doc[i].parts[j] + Gap
    IN  IF j > acc.first /\ acc.size + more > Preferred
          THEN [done |-> Append(acc.done, <<Piece(i, acc.first, j - 1)>>),
                first |-> j, size |-> Header(i) + more]
          ELSE [acc EXCEPT !.size = @ + more]

SplitUnits(i) ==
    LET n == Len(doc[i].parts)
        batch[j \in 0..n] ==
            IF j = 0 THEN [done |-> <<>>, first |-> 1, size |-> Header(i)]
                     ELSE AddPart(i, batch[j - 1], j)
    IN  IF Size(doc[i]) <= Absolute
          THEN <<<<Whole(i)>>>>
          ELSE Append(batch[n].done, <<Piece(i, batch[n].first, n)>>)

Splits(i) == Kind(i) \in {"table", "list"}
Flush(acc) == IF acc.open = <<>> THEN acc.done ELSE Append(acc.done, acc.open)

AddBlock(acc, i) ==
    IF Splits(i) /\ Size(doc[i]) > Absolute
      THEN [done |-> Flush(acc) \o SplitUnits(i), open |-> <<>>, size |-> 0]
    ELSE IF acc.open # <<>> /\ acc.size + Size(doc[i]) + Gap > Preferred
      THEN [done |-> Flush(acc), open |-> <<Whole(i)>>, size |-> Size(doc[i])]
    ELSE [acc EXCEPT !.open = Append(@, Whole(i)), !.size = @ + Size(doc[i])]

SplitMixed(group) ==
    LET n == Len(group)
        merge[k \in 0..n] ==
            IF k = 0 THEN [done |-> <<>>, open |-> <<>>, size |-> 0]
                     ELSE AddBlock(merge[k - 1], group[k])
    IN  IF n = 1 \/ Sizes(group) + (n - 1) * Gap <= Absolute
          THEN <<[k \in DOMAIN group |-> Whole(group[k])]>>
          ELSE Flush(merge[n])

ExpandGroup(group) ==
    IF Len(group) = 1 /\ Splits(group[1]) THEN SplitUnits(group[1]) ELSE SplitMixed(group)
Expand(gs) == FlattenSeq([k \in DOMAIN gs |-> ExpandGroup(gs[k])])

Chunks == Expand(Flushed)

-----------------------------------------------------------------------------
Parts(piece) == [k \in 1..(piece.last - piece.first + 1) |->
                    <<piece.block, piece.first + k - 1>>]
AllParts(pieces) == FlattenSeq([k \in DOMAIN pieces |-> Parts(pieces[k])])

(* Every paragraph, row and item is in one chunk, and the chunks are in    *)
(* reading order, whatever was merged and split (what the validator warns  *)
(* about, and what was once lost with headings without text).              *)
NothingLost ==
    AllParts(FlattenSeq(Chunks)) = AllParts([i \in DOMAIN doc |-> Whole(i)])

(* A heading is cut off from its text only where the two are too large for *)
(* the preferred size together, in whatever group and split they end up    *)
(* (test_heading_stays_with_first_paragraph, for any blocks).              *)
HeadingKeepsText ==
    \A chunk \in Range(Chunks) :
        LET i == chunk[1].block
        IN  (Len(chunk) = 1 /\ Kind(i) = "heading" /\ i < Len(doc)) =>
                \/ Kind(i + 1) = "heading"
                \/ Size(doc[i]) + Size(doc[i + 1]) + Gap > Preferred
=============================================================================
