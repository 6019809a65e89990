---- MODULE ChunkMerge ----
(***************************************************************************)
(* One long file from the plan of its chunks to the merged transcript:     *)
(* audio.py, what an engine hears in each chunk, and the two loops of      *)
(* merge.py, one step per turn.  Times are in frames of the file.          *)
(***************************************************************************)
EXTENDS ChunkPlan, SequencesExt

CONSTANTS Sounds,         \* what _normalize_word may leave of the text of a word
          Clipped,        \* and what it leaves of a word that was cut off
          Recordings(_),  \* what may be spoken in a file of this setting: words in order
          Engines(_)      \* how its chunks may be heard

\* A word has a start, an end and a sound.
\* An engine has
\*   tile      length of MockEngine's segments, or 0 for an engine that listens
\*   shift     its timings in every other chunk are off by this much
\*   clipped   does it make another word of one that is cut off at the edge of a chunk?
\*   breaks    breaks[i]: words that begin a segment, in the chunks of parity i
\*   pad       silence it counts to a segment at both ends
\*   wordless  chunks whose segments come without words
Spoken == [start : Nat, end : Nat, sound : Sounds]
Engine == [tile : Nat, shift : Int, clipped : BOOLEAN, breaks : [0..1 -> SUBSET Nat],
           pad : Nat, wordless : SUBSET Nat]

ASSUME HearingAssumption ==
  /\ Clipped \in Sounds
  /\ \A p \in Settings :
       /\ Recordings(p) \subseteq Seq(Spoken) /\ Engines(p) \subseteq Engine
       /\ \A s \in Recordings(p) : \A k \in DOMAIN s :
            /\ s[k].start < s[k].end /\ s[k].end <= p.frames
            /\ \A j \in 1..k - 1 : s[j].end <= s[k].start

VARIABLES speech, engine,  \* chosen once
          results,     \* results[i]: the segments of chunk i, by the word each begins with
          c,           \* the chunk being merged; 0 before the engine has heard it all
          todo, seg,   \* its segments still to come, and the present one or 0
          left,        \* words of seg still to come
          kept, headCut, segTailCut,
          firstInChunk, lastWord, keptUntil, tailCut,
          segments     \* merged so far

vars == <<setting, windows, planned, speech, engine, results, c, todo, seg, left, kept,
          headCut, segTailCut, firstInChunk, lastWord, keptUntil, tailCut, segments>>

heard == <<setting, windows, planned, speech, engine, results>>
inSegment == <<left, kept, headCut, segTailCut>>
acrossChunks == <<lastWord, keptUntil, tailCut, segments>>

NoWord == [start |-> -1, end |-> -1, of |-> 0, sound |-> "none"]
NegInf == -1   \* float("-inf"): before every time

Init == /\ PlanInit
        /\ speech \in Recordings(setting) /\ engine \in Engines(setting)
        /\ results = <<>> /\ c = 0 /\ todo = {} /\ seg = 0
        /\ left = {} /\ kept = <<>> /\ headCut = FALSE /\ segTailCut = FALSE
        /\ firstInChunk = TRUE /\ lastWord = NoWord /\ keptUntil = NegInf
        /\ tailCut = FALSE /\ segments = <<>>

chunks == split_into_chunks

(* Operators whose comment begins with "Mutant" are plausible defects of   *)
(* the definition below them; only the checks of the properties use them.  *)

\* round(t, TIMESTAMP_PRECISION), with three frames to a hundredth of a second.
Stamp(t) == 3 * ((t + 1) \div 3)

\* The text of a segment: which words it has, 0 for a word that was never spoken.
TextOf(words) == [i \in DOMAIN words |-> words[i].of]

----------------------------------------------------------------------------
(* What an engine returns for a chunk, in times of the chunk.              *)

\* Is the whole word in the chunk?
Whole(i, k) == chunks[i].start <= speech[k].start /\ speech[k].end <= chunks[i].end

\* The words of which the chunk has a part, or all: neighbours, as they do not overlap.
Within(i) == {k \in DOMAIN speech :
  /\ speech[k].start < chunks[i].end /\ chunks[i].start < speech[k].end
  /\ engine.clipped \/ Whole(i, k)}

Shift(i) == IF i % 2 = 0 THEN engine.shift ELSE 0

\* No time lies before the chunk.
HeardWord(i, k) ==
  LET chunk == chunks[i]  w == speech[k]
      At(time) == Stamp(Greater(time - chunk.start + Shift(i), 0))
  IN  [start |-> At(Greater(w.start, chunk.start)), end |-> At(Lesser(w.end, chunk.end)),
       of |-> IF Whole(i, k) THEN k ELSE 0,
       sound |-> IF Whole(i, k) THEN w.sound ELSE Clipped]

\* The words that begin a segment, and the last word of the segment that begins with b.
Begins(i) == {k \in Within(i) : k - 1 \notin Within(i) \/ k \in engine.breaks[i % 2]}
LastOf(i, b) ==
  Min({k \in Within(i) : k >= b /\ (k + 1 \notin Within(i) \/ k + 1 \in Begins(i))})

\* WhisperEngine._to_result: rounded timings, words grouped into segments.
HeardWords(i, b) == [j \in 1..LastOf(i, b) - b + 1 |-> HeardWord(i, b + j - 1)]
Heard(i) == [b \in Begins(i) |->
  [start |-> Greater(HeardWord(i, b).start - 3 * engine.pad, 0),
   end |-> HeardWord(i, LastOf(i, b)).end + 3 * engine.pad,
   text |-> TextOf(HeardWords(i, b)),
   words |-> IF i \in engine.wordless THEN <<>> ELSE HeardWords(i, b)]]

\* MockEngine.transcribe with word_timestamps off: equal segments, the last one shorter.
Tiles(i) ==
  LET length == chunks[i].end - chunks[i].start
  IN  [j \in 1..(length + engine.tile - 1) \div engine.tile |->
        [start |-> Stamp((j - 1) * engine.tile), end |-> Stamp(Lesser(j * engine.tile, length)),
         text |-> <<0>>, words |-> <<>>]]

Transcribe == /\ planned /\ c = 0
              /\ results' = [i \in DOMAIN windows |-> IF engine.tile = 0 THEN Heard(i) ELSE Tiles(i)]
              /\ c' = 1 /\ todo' = DOMAIN results'[1]
              /\ UNCHANGED <<setting, windows, planned, speech, engine, seg, firstInChunk>>
              /\ UNCHANGED inSegment /\ UNCHANGED acrossChunks

----------------------------------------------------------------------------
(* merge_chunk_results.                                                    *)

\* sorted(..., key=(start, end)): the first of those still to come.
Earliest(S, seq) == CHOOSE i \in S : \A j \in S :
  \/ seq[i].start < seq[j].start
  \/ seq[i].start = seq[j].start /\ seq[i].end < seq[j].end
  \/ seq[i].start = seq[j].start /\ seq[i].end = seq[j].end /\ i <= j

\* Do all segments have words, and is there one?  Otherwise segments are merged whole.
Worded == /\ \E i \in DOMAIN results : DOMAIN results[i] # {}
          /\ \A i \in DOMAIN results : \A j \in DOMAIN results[i] : results[i][j].words # <<>>

\* Centres and cuts are compared doubled.
BeyondCut(start, end) ==
  c < Len(results) /\ start + end >= chunks[c + 1].start + chunks[c].end

\* Mutant: compared with the start of the word instead of its centre.
StartsBeforeKept(start, end) == start < keptUntil
BeforeKept(start, end) == start + end < 2 * keptUntil

\* Mutant: the segments still to come are those of the chunk before.
BeginChunkBefore(i) == c' = i /\ todo' = DOMAIN results[c] /\ firstInChunk' = TRUE
BeginChunk(i) == /\ c' = i
                 /\ todo' = IF i \in DOMAIN results THEN DOMAIN results[i] ELSE {}
                 /\ firstInChunk' = TRUE

NextChunk == /\ c \in DOMAIN results /\ seg = 0 /\ todo = {}
             /\ BeginChunk(c + 1)
             /\ UNCHANGED <<heard, seg>> /\ UNCHANGED inSegment /\ UNCHANGED acrossChunks

----------------------------------------------------------------------------
(* _merge_by_words: the words of one segment after the other.              *)

SegmentBegins == /\ Worded /\ seg = 0 /\ todo # {}
                 /\ seg' = Earliest(todo, results[c])
                 /\ todo' = todo \ {seg'}
                 /\ left' = DOMAIN results[c][seg'].words
                 /\ kept' = <<>> /\ headCut' = FALSE /\ segTailCut' = FALSE
                 /\ UNCHANGED <<heard, c, firstInChunk>> /\ UNCHANGED acrossChunks

next == Earliest(left, results[c][seg].words)
word == results[c][seg].words[next]
Start == word.start + chunks[c].start
End == word.end + chunks[c].start

\* Mutant: only times are compared.
NeverTwin == FALSE
\* The first new word of a chunk is the last one of the chunk before, heard a little later.
Twin == /\ firstInChunk /\ lastWord # NoWord
        /\ Start < lastWord.end
        /\ word.sound = lastWord.sound

TakeWord == Worded /\ seg # 0 /\ left # {} /\ left' = left \ {next}

WordBeyondCut == /\ TakeWord
                 /\ BeyondCut(Start, End)
                 /\ segTailCut' = TRUE
                 /\ UNCHANGED <<heard, c, todo, seg, kept, headCut, firstInChunk>>
                 /\ UNCHANGED acrossChunks

WordKeptBefore == /\ TakeWord
                  /\ ~BeyondCut(Start, End)
                  /\ BeforeKept(Start, End)
                  /\ headCut' = (headCut \/ kept = <<>>)
                  /\ UNCHANGED <<heard, c, todo, seg, kept, segTailCut, firstInChunk>>
                  /\ UNCHANGED acrossChunks

\* Mutant: the segment that lost its first word keeps the engine's text.
HeadNotMarked == headCut
HeadMarked == headCut \/ kept = <<>>

WordHeardTwice == /\ TakeWord
                  /\ ~BeyondCut(Start, End) /\ ~BeforeKept(Start, End)
                  /\ Twin
                  /\ headCut' = HeadMarked
                  /\ firstInChunk' = FALSE
                  /\ UNCHANGED <<heard, c, todo, seg, kept, segTailCut>>
                  /\ UNCHANGED acrossChunks

\* Mutant: a word that begins before the end of the last one is not clamped.
Unclamped == Start
Clamped == Greater(Start, keptUntil)

WordKept == /\ TakeWord
            /\ ~BeyondCut(Start, End) /\ ~BeforeKept(Start, End) /\ ~Twin
            /\ firstInChunk' = FALSE
            /\ IF Clamped >= End
               THEN UNCHANGED <<lastWord, kept, keptUntil>>
               ELSE /\ lastWord' = [word EXCEPT !.start = Stamp(Clamped), !.end = Stamp(End)]
                    /\ kept' = Append(kept, lastWord')
                    /\ keptUntil' = End
            /\ UNCHANGED <<heard, c, todo, seg, headCut, segTailCut, tailCut, segments>>

SegmentOf(id, start, end, text, words) ==
  [id |-> id, start |-> start, end |-> end, text |-> text, words |-> words]

WholeStart(s) ==
  LET own == Stamp(s.start + chunks[c].start)
  IN  Lesser(IF segments = <<>> THEN own ELSE Greater(own, Last(segments).end), kept[1].start)

Joined == headCut /\ tailCut /\ segments # <<>>

\* A sentence split by the cut goes on in the last segment.
Join == LET prev == Last(segments)  words == prev.words \o kept
        IN  [segments EXCEPT ![Len(segments)] =
              SegmentOf(prev.id, prev.start, Last(kept).end, TextOf(words), words)]

\* An uncut segment has the text and the bounds of the engine.
Uncut == LET s == results[c][seg]
         IN  SegmentOf(Len(segments), WholeStart(s),
                       Greater(Stamp(s.end + chunks[c].start), Last(kept).end), s.text, kept)

Rebuilt == SegmentOf(Len(segments), kept[1].start, Last(kept).end, TextOf(kept), kept)

SegmentEnds == /\ Worded /\ seg # 0 /\ left = {}
               /\ seg' = 0
               /\ \/ kept = <<>> /\ UNCHANGED <<segments, tailCut>>
                  \/ /\ kept # <<>>
                     /\ tailCut' = segTailCut
                     /\ \/ Joined /\ segments' = Join
                        \/ /\ ~Joined /\ ~headCut /\ ~segTailCut
                           /\ segments' = Append(segments, Uncut)
                        \/ /\ ~Joined /\ (headCut \/ segTailCut)
                           /\ segments' = Append(segments, Rebuilt)
               /\ UNCHANGED <<heard, c, todo, firstInChunk, lastWord, keptUntil>>
               /\ UNCHANGED inSegment

----------------------------------------------------------------------------
(* _merge_by_segments.                                                     *)

MergeSegment ==
  /\ ~Worded /\ todo # {}
  /\ LET i == Earliest(todo, results[c])
         s == results[c][i]
         start == s.start + chunks[c].start
         end == s.end + chunks[c].start
         clamped == Greater(start, keptUntil)
     IN  /\ todo' = todo \ {i}
         /\ IF BeforeKept(start, end) \/ BeyondCut(start, end) \/ clamped >= end
            THEN UNCHANGED <<segments, keptUntil>>
            ELSE /\ keptUntil' = end
                 /\ segments' = Append(segments,
                      SegmentOf(Len(segments), Stamp(clamped), Stamp(end), s.text, <<>>))
  /\ UNCHANGED <<heard, c, seg, firstInChunk, lastWord, tailCut>> /\ UNCHANGED inSegment

Merge == \/ NextChunk \/ SegmentBegins \/ WordBeyondCut \/ WordKeptBefore \/ WordHeardTwice
         \/ WordKept \/ SegmentEnds \/ MergeSegment

Plan == PlanWindow /\ UNCHANGED <<speech, engine, results, c, todo, seg, firstInChunk>>
                   /\ UNCHANGED inSegment /\ UNCHANGED acrossChunks

Next == Plan \/ Transcribe \/ Merge

Spec == Init /\ [][Next]_vars

----------------------------------------------------------------------------
HeardAs == [start : Nat, end : Nat, of : Nat, sound : Sounds]
Result == [start : Nat, end : Nat, text : Seq(Nat), words : Seq(HeardAs)]

TypeOK ==
  /\ PlanTypeOK
  /\ speech \in Seq(Spoken) /\ engine \in Engine
  /\ DOMAIN results \in {{}, DOMAIN windows}
  /\ \A i \in DOMAIN results : \A j \in DOMAIN results[i] : j \in Nat \ {0} /\ results[i][j] \in Result
  /\ c \in 0..Len(results) + 1 /\ (c = 0 <=> results = <<>>)
  /\ todo \subseteq IF c \in DOMAIN results THEN DOMAIN results[c] ELSE {}
  /\ seg # 0 => c \in DOMAIN results /\ seg \in DOMAIN results[c]
  /\ seg # 0 => left \subseteq DOMAIN results[c][seg].words
  /\ kept \in Seq(HeardAs) /\ {headCut, segTailCut, firstInChunk, tailCut} \subseteq BOOLEAN
  /\ lastWord \in HeardAs \cup {NoWord} /\ keptUntil \in Nat \cup {NegInf}
  /\ segments \in Seq([id : Nat, start : Nat, end : Nat, text : Seq(Nat), words : Seq(HeardAs)])

Merged == c > Len(results) /\ results # <<>>

InOrder(words) == \A i, j \in DOMAIN words : i < j => words[i].end <= words[j].start

\* What assert_well_formed_timeline asks of the words, whatever the engine returns: in order,
\* disjoint, inside their segments; segments numbered and in order of start (merge.py:54-134).
WellFormed ==
  \A j \in DOMAIN segments : LET s == segments[j] IN
    /\ s.id = j - 1
    /\ InOrder(s.words)
    /\ \A k \in DOMAIN s.words : s.start <= s.words[k].start /\ s.words[k].end <= s.end
    /\ \A i \in 1..j - 1 :
         /\ segments[i].start <= s.start
         /\ \A a \in DOMAIN segments[i].words : \A b \in DOMAIN s.words :
              segments[i].words[a].end <= s.words[b].start

Size(shift) == Greater(shift, -shift)
\* The same time may differ by this much in two chunks: rounded in both, and the shift.
Timing == 2 + Size(engine.shift)
\* Words the overlaps were made for: each is shorter than every overlap, but long enough for
\* the timings; a last chunk that is late may even be off by a word.  And what is left of a
\* word at the beginning of a chunk is long enough as well, if it is heard at all.
Clear ==
  /\ engine.tile = 0 /\ Worded
  /\ \A k \in DOMAIN speech :
       LET w == speech[k]
           Long(from) == w.end - from > 2 * Timing
           LateAtLast == engine.shift > 0 /\ Len(windows) = 2 /\ w.end - w.start > Timing
       IN  /\ Long(w.start) \/ LateAtLast
           /\ \A i \in 1..Len(windows) - 1 :
                w.end - w.start + 2 * Size(Shift(i)) < chunks[i].end - chunks[i + 1].start
           /\ engine.clipped => \A i \in DOMAIN windows :
                w.start < chunks[i].start /\ chunks[i].start < w.end => Long(chunks[i].start)
Repeats == \E k \in 2..Len(speech) : speech[k].sound = speech[k - 1].sound

AllOnce == [k \in DOMAIN speech |-> k]
Transcript == FlattenSeq([j \in DOMAIN segments |-> segments[j].text])
WordList == FlattenSeq([j \in DOMAIN segments |-> TextOf(segments[j].words)])

\* However the overlaps are heard, timed and split into sentences, every word is in the
\* transcript once, whole and in its place, in the text as in the words (merge.py:62-133).
WordsKeptOnce == (Merged /\ Clear /\ ~Repeats) => Transcript = AllOnce /\ WordList = AllOnce

\* The same of words that are said twice: "genuinely repeated word at seam is kept"
\* (test_transcription.py:357), "so it's kept exactly once" (README.md:111).
RepeatsKeptOnce == (Merged /\ Clear) => WordList = AllOnce

\* Chunks begin further apart than what rounding may move a time.
Apart == \A i \in 1..Len(windows) - 1 : chunks[i + 1].start - chunks[i].start > 1

\* Without word timings the transcript covers the file, up to less than half a segment at
\* each seam and at the end, for the merge decides by the centres of segments; four frames
\* more for what is rounded in the chunks, in the transcript and between two chunks.  It
\* begins with the file, unless that is too short for a time, and never steps back
\* (merge.py:137-160).
FallbackGap == (Merged /\ engine.tile > 0 /\ Apart) =>
  LET Short(gap) == 2 * (gap - 4) < engine.tile
      end == [j \in 0..Len(segments) |-> IF j = 0 THEN 0 ELSE segments[j].end]
  IN  /\ IF segments = <<>> THEN setting.frames = 1 ELSE segments[1].start = 0
      /\ Short(setting.frames - end[Len(segments)])
      /\ \A j \in DOMAIN segments :
           LET gap == segments[j].start - end[j - 1] IN gap >= 0 /\ Short(gap)
====
