------------------------------ MODULE Postings ------------------------------
(****************************************************************************)
(* Compressed posting lists and the top-K search over them (wand.go,        *)
(* vbyte.go in internal/index): postings are added to a tail, the tail is   *)
(* sealed into blocks, documents are marked deleted, and a search skips the *)
(* blocks whose bound is too low.                                           *)
(*                                                                          *)
(* Scores are integers: BM25 with k1 = 1.2 and b = 0.75, scaled.            *)
(*                                                                          *)
(* A document has two lengths: the one given when it was added, from which  *)
(* the bound of its block comes, and the one in the slice docLengths that   *)
(* the caller of a search passes.  Nothing in the code makes them agree.    *)
(****************************************************************************)
EXTENDS Integers, FiniteSets, Sequences, SequencesExt

CONSTANTS
    DocId, Frequency,
    TextLength,  \* the lengths a document may be given
    AvgLength,   \* their average, as the caller computed it; a whole number here
    BlockSize,   \* 64 in the code
    Base,        \* 128 in the code: what one byte of VByte holds
    MaxPostings  \* bound: postings added to one list

PostingsAssumption ==
    /\ DocId \subseteq Nat /\ Frequency \subseteq Nat \ {0}
    /\ AvgLength \in Nat \ {0} /\ BlockSize \in Nat \ {0} /\ Base \in Nat \ {0, 1}
    /\ TextLength \subseteq Nat

VARIABLES
    blocks, tail,     \* of the list
    added,            \* TotalCount: all that was added, the duplicates too
    deleted,          \* DocIDMapper.deleted
    sealed            \* history: what went into the blocks

vars == <<blocks, tail, added, deleted, sealed>>

-----------------------------------------------------------------------------
(* VByte: a number as bytes, the low ones first, all but the last marked. *)

Byte == [more : BOOLEAN, low : Nat]

AppendVByte[x \in Nat] ==
    IF x < Base THEN <<[more |-> FALSE, low |-> x]>>
    ELSE <<[more |-> TRUE, low |-> x % Base]>> \o AppendVByte[x \div Base]

ReadVByte[bytes \in Seq(Byte)] ==
    IF bytes = << >> THEN 0
    ELSE bytes[1].low + (IF bytes[1].more THEN Base * ReadVByte[Tail(bytes)] ELSE 0)

\* The value at the front and the number of bytes it takes.
DecodeVByte(bytes) ==
    [val  |-> ReadVByte[bytes],
     read |-> CHOOSE n \in DOMAIN bytes : ~bytes[n].more /\ \A m \in 1..(n - 1) : bytes[m].more]

\* Ids are increasing here, so that the encoding never fails.
EncodePostingBlock(ids, tfs) ==
    [docs  |-> FlattenSeq([i \in DOMAIN ids |-> AppendVByte[IF i = 1 THEN ids[1] ELSE ids[i] - ids[i - 1]]]),
     freqs |-> FlattenSeq([i \in DOMAIN tfs |-> AppendVByte[tfs[i]]])]

Rest(bytes) == SubSeq(bytes, DecodeVByte(bytes).read + 1, Len(bytes))

Decode[docs \in Seq(Byte), freqs \in Seq(Byte), last \in Nat] ==
    IF docs = << >> THEN << >>
    ELSE LET id == last + DecodeVByte(docs).val
         IN  <<[id |-> id, tf |-> DecodeVByte(freqs).val]>> \o Decode[Rest(docs), Rest(freqs), id]
DecodePostingBlock(block) == Decode[block.data.docs, block.data.freqs, 0]

-----------------------------------------------------------------------------
(* The list *)

Init == blocks = << >> /\ tail = << >> /\ added = 0 /\ deleted = {} /\ sealed = << >>

Add(id, tf, len) ==
    /\ added < MaxPostings
    /\ tail' = Append(tail, [id |-> id, tf |-> tf, len |-> len])
    /\ added' = added + 1
    /\ UNCHANGED <<blocks, deleted, sealed>>

\* One entry per document, in the order of ids: the frequencies of one that was added
\* twice are added up, and of its lengths one is kept, any one: the code keeps the last
\* after a sort that may reorder the entries of one document.
FrequencyIn(entries, id) ==
    FoldLeft(LAMBDA sum, e : IF e.id = id THEN sum + e.tf ELSE sum, 0, entries)
LengthChoices(entries) ==
    {kept \in [{e.id : e \in ToSet(entries)} -> TextLength] :
        \A id \in DOMAIN kept : \E e \in ToSet(entries) : e.id = id /\ e.len = kept[id]}
Dedupe(entries, kept) ==
    LET ids == SetToSortSeq(DOMAIN kept, LAMBDA x, y : x < y)
    IN  [i \in DOMAIN ids |-> [id |-> ids[i], tf |-> FrequencyIn(entries, ids[i]), len |-> kept[ids[i]]]]

LargestOf(S) == CHOOSE x \in S : \A y \in S : x >= y
SmallestOf(S) == CHOOSE x \in S : \A y \in S : x <= y

\* Mutant: the bound of a block is that of its longest document.
MakeBlockOfLongest(entries) ==
    [maxTF |-> LargestOf({e.tf : e \in ToSet(entries)}),
     minLen |-> LargestOf({e.len : e \in ToSet(entries)}),
     data |-> EncodePostingBlock([i \in DOMAIN entries |-> entries[i].id],
                                 [i \in DOMAIN entries |-> entries[i].tf])]

MakeBlock(entries) ==
    [maxTF |-> LargestOf({e.tf : e \in ToSet(entries)}),
     minLen |-> SmallestOf({e.len : e \in ToSet(entries)}),
     data |-> EncodePostingBlock([i \in DOMAIN entries |-> entries[i].id],
                                 [i \in DOMAIN entries |-> entries[i].tf])]

SealTail ==
    /\ tail # << >>
    /\ \E kept \in LengthChoices(tail) :
          LET entries == Dedupe(tail, kept)
              count == (Len(entries) + BlockSize - 1) \div BlockSize
              chunk(k) == SubSeq(entries, (k - 1) * BlockSize + 1,
                                 SmallestOf({k * BlockSize, Len(entries)}))
          IN  /\ blocks' = blocks \o [k \in 1..count |-> MakeBlock(chunk(k))]
              /\ sealed' = sealed \o entries
    /\ tail' = << >>
    /\ UNCHANGED <<added, deleted>>

MarkDeleted(id) ==
    /\ deleted' = deleted \cup {id}
    /\ UNCHANGED <<blocks, tail, added, sealed>>

Next ==
    \/ \E id \in DocId, tf \in Frequency, len \in TextLength : Add(id, tf, len)
    \/ SealTail
    \/ \E id \in DocId \ deleted : MarkDeleted(id)

Spec == Init /\ [][Next]_vars

-----------------------------------------------------------------------------
(* Searches *)

Scale == 1000
ScoreBM25(tf, length) ==
    IF tf = 0 THEN 0
    ELSE (tf * 22 * AvgLength * Scale) \div (10 * AvgLength * tf + 3 * AvgLength + 9 * length)

ComputeBlockUpperBound(maxTF, minLen) == ScoreBM25(maxTF, minLen)

MinScore(hits) == SmallestOf({h.score : h \in ToSet(hits)})

\* A hit takes the place of the first of the lowest, if it is better.
Offer(hits, id, score, topK) ==
    IF score = 0 \/ id \in deleted THEN hits
    ELSE IF Len(hits) < topK THEN Append(hits, [id |-> id, score |-> score])
    ELSE IF score <= MinScore(hits) THEN hits
    ELSE LET i == SelectInSeq(hits, LAMBDA h : h.score = MinScore(hits))
         IN  [hits EXCEPT ![i] = [id |-> id, score |-> score]]

\* What a caller may pass as docLengths: the lengths of the ids below some id, or nil; of
\* no account are those of documents the list does not hold.
DocLengths ==
    LET ids == {e.id : e \in ToSet(sealed \o tail)}
    IN  UNION {[{id \in ids : id < n} -> TextLength] : n \in {0} \cup {id + 1 : id \in ids}}

\* The length a search scores a document with; past the slice, the average.
LengthIn(docLengths, id) == IF id \in DOMAIN docLengths THEN docLengths[id] ELSE AvgLength

OfferAll(hits, entries, topK, docLengths) ==
    FoldLeft(LAMBDA hs, e : Offer(hs, e.id, ScoreBM25(e.tf, LengthIn(docLengths, e.id)), topK),
             hits, entries)

Sorted(hits) == SortSeq(hits, LAMBDA x, y : x.score > y.score \/ (x.score = y.score /\ x.id < y.id))

SkipBlock(hits, block, topK) ==
    /\ Len(hits) >= topK
    /\ ComputeBlockUpperBound(block.maxTF, block.minLen) <= MinScore(hits)

\* BlockMaxWANDScores for one term.
SearchOne(topK, docLengths) ==
    LET visit(hits, block) ==
            IF SkipBlock(hits, block, topK) THEN hits
            ELSE OfferAll(hits, DecodePostingBlock(block), topK, docLengths)
    IN  Sorted(OfferAll(FoldLeft(visit, << >>, blocks), tail, topK, docLengths))

\* BlockMaxWANDScores for several terms: here the list twice, with nothing skipped; the
\* scores of a document are added up.
SearchMany(topK, docLengths) ==
    LET entries == FlattenSeq([k \in DOMAIN blocks |-> DecodePostingBlock(blocks[k])]) \o tail
        length(id) == LengthIn(docLengths, id)
        score(id) == FoldLeft(LAMBDA sum, e : IF e.id = id THEN sum + ScoreBM25(e.tf, length(id)) ELSE sum,
                              0, entries \o entries)
        ids == {e.id : e \in ToSet(entries)} \ deleted
        hits == Sorted([i \in 1..Cardinality(ids) |->
                          LET seq == SetToSeq(ids) IN [id |-> seq[i], score |-> score(seq[i])]])
    IN  SubSeq(hits, 1, SmallestOf({topK, Len(hits)}))

\* Count: every posting ever added.
PostingCount == added

-----------------------------------------------------------------------------
\* What the list holds, without blocks or bytes.
Everything == sealed \o tail
Scores(hits) == [i \in DOMAIN hits |-> hits[i].score]

\* No document in a block is shorter to the search than the list was told.
Covers(docLengths) == \A e \in ToSet(sealed) : LengthIn(docLengths, e.id) >= e.len

\* Skipping blocks never costs a better hit, as long as the search takes no document for
\* shorter than it was when it was sealed: the scores of the best K are those of a scan of
\* every posting.  A query of several terms, which skips nothing, gives the same order
\* whatever lengths it is passed, while no document is in the list twice
\* (BlockMaxWANDScores, ComputeBlockUpperBound, EncodePostingBlock, SealTail).  Without the
\* premise the first claim is false: a block of texts that are long by their lengths at Add is
\* bounded by less than what a search that is passed shorter ones, or none, scores in it.
WandIsExact ==
    \A docLengths \in DocLengths :
        LET all == Scores(Sorted(OfferAll(<< >>, Everything, MaxPostings, docLengths)))
            best(topK) == SubSeq(all, 1, SmallestOf({topK, Len(all)}))
        IN  /\ Covers(docLengths) => \A topK \in 1..2 : Scores(SearchOne(topK, docLengths)) = best(topK)
            /\ IsInjective([i \in DOMAIN Everything |-> Everything[i].id]) =>
                  \A topK \in 1..2 :
                     Scores(SearchMany(topK, docLengths)) = [i \in DOMAIN best(topK) |-> 2 * best(topK)[i]]
=============================================================================
