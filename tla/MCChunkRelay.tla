---------------------------- MODULE MCChunkRelay ----------------------------
(* Chunked bodies as servers encode them: plain ones, one whose data ends    *)
(* like a terminal chunk begins, one with a trailer field, and two that      *)
(* imitate their end: by a size of 10 (hexadecimal) and data that begins     *)
(* with a line end, and by data that holds the terminal chunk.               *)
EXTENDS ChunkRelay

Alphabet == {"0", "1", "5", "r", "n", "x"}
LineEnd  == <<"r", "n">>
Fill(n)  == [k \in 1..n |-> "x"]

Chunk(size, data) == size \o LineEnd \o data \o LineEnd
LastChunk         == <<"0">> \o LineEnd

Plain == { LastChunk \o LineEnd,
           Chunk(<<"1">>, <<"x">>) \o LastChunk \o LineEnd,
           Chunk(<<"1">>, <<"0">>) \o Chunk(<<"1">>, <<"x">>) \o LastChunk \o LineEnd,
           Chunk(<<"1">>, <<"0">>) \o LastChunk \o <<"x">> \o LineEnd \o LineEnd }

Imitating == { Chunk(<<"1", "0">>, LineEnd \o Fill(14)) \o LastChunk \o LineEnd,
               Chunk(<<"5">>, LastChunk \o LineEnd) \o LastChunk \o LineEnd }

AllBodies == Plain \cup Imitating

=============================================================================
