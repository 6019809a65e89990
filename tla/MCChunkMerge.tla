---- MODULE MCChunkMerge ----
(* ChunkMerge with files of a few chunks: long words for the merge, short silent files for the plan. *)
EXTENDS ChunkMerge

File(frames, length, overlap) == [frames |-> frames, length |-> length, overlap |-> overlap]

\* Two chunks that fit exactly (or a third one, by a float), three, and chunks that share more than half.
Talks == {File(52, 68, 32), File(53, 68, 32), File(44, 52, 34)}
\* Overlaps shorter than a segment, settings finer than a frame, files shorter than a chunk.
Silences == [frames : 1..12, length : {7, 8, 9}, overlap : {0, 1, 3, 4}]
MCSettings == Talks \cup Silences \cup {File(40, 40, 10)}

\* Words of length 11 to 13 from the first frames on to the end, with and without pauses.
Word(start, length, sound) == [start |-> start, end |-> start + length, sound |-> sound]
Sentence(first, n, l, gap, sounds) ==
  LET at[k \in 1..n] == IF k = 1 THEN first ELSE at[k - 1] + l[k - 1] + gap[k - 1]
  IN  [k \in 1..n |-> Word(at[k], l[k], sounds[k])]

Said(p, sounds) ==
  {s \in {Sentence(f, n, l, g, sounds) : f \in 0..3, n \in 3..4,
            l \in {<<11, 12, 11, 12>>, <<13, 12, 13, 13>>}, g \in {<<0, 0, 0>>, <<2, 0, 1>>, <<0, 1, 2>>}} :
     p.frames - s[Len(s)].end \in 0..11}

MCRecordings(p) == IF p \in Talks THEN Said(p, <<"a", "b", "c", "d">>) ELSE {<<>>}
MCRepetitions(p) == Said(p, <<"a", "b", "b", "c">>)

Listening == [tile : {0}, shift : -1..1, clipped : BOOLEAN, breaks : [0..1 -> SUBSET {2, 3}], pad : {1}, wordless : {{}}]
Late == [tile : {0}, shift : {5, 7}, clipped : {FALSE}, breaks : [0..1 -> SUBSET {2, 3}], pad : {0}, wordless : {{}}]
Plain == [tile |-> 0, shift |-> 0, clipped |-> FALSE, breaks |-> [i \in 0..1 |-> {}], pad |-> 0, wordless |-> {}]
Mocks(tiles) == {[Plain EXCEPT !.tile = t] : t \in tiles}
MCEngines(p) ==
  IF p \in Talks THEN Listening \cup Late \cup Mocks(3..12) \cup {[Plain EXCEPT !.wordless = {i}] : i \in 1..2}
  ELSE IF p \in Silences THEN {Plain} \cup Mocks({1, 2, 4, 5}) ELSE Mocks(3..22)
MCListeners(p) == Listening
====
