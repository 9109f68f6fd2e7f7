-------------------------------- MODULE Table --------------------------------
(*******************************************************************************)
(* The files of leveldb that hold entries, as far as iterators walk through    *)
(* them: a block with its restart points (table/block.cc), a table of blocks   *)
(* with its index, and a level of tables, both of which are walked by a        *)
(* TwoLevelIterator (table/two_level_iterator.cc).  How TableBuilder lays a    *)
(* table out is here too.                                                      *)
(*                                                                             *)
(* A place is where an iterator stands: [at |-> i, ...], the i-th entry, block *)
(* or file, or Off when it is not Valid().                                     *)
(*******************************************************************************)
EXTENDS DBFormat, Sequences

CONSTANT RestartInterval   \* block_restart_interval

ASSUME RestartIntervalAssumption == RestartInterval \in Nat \ {0}

Off == [at |-> 0]

Lowest(S)  == CHOOSE x \in S : \A y \in S : x =< y
Highest(S) == CHOOSE x \in S : \A y \in S : y =< x

-----------------------------------------------------------------------------
(* Block::Iter.  Its place also has restart_index_; offsets are positions in   *)
(* the block.  The first key at a restart point is stored in full, the others  *)
(* can only be read one after the other from there.                          *)

Block(entries, interval) == [entries |-> entries, interval |-> interval]

NumRestarts(b)     == IF b.entries = <<>> THEN 1 ELSE 1 + (Len(b.entries) - 1) \div b.interval
RestartPoint(b, r) == 1 + r * b.interval

\* ParseNextKey, over and over until entry i, having started at restart point r.
ParseNextKey(b, r, i) ==
    IF i > Len(b.entries) THEN Off
    ELSE [at |-> i,
          restart |-> Highest({r} \cup {q \in r + 1 .. NumRestarts(b) - 1 :
                                           RestartPoint(b, q) < i})]

BlockFirst(b)   == ParseNextKey(b, 0, 1)
BlockLast(b)    == ParseNextKey(b, NumRestarts(b) - 1,
                                IF b.entries = <<>> THEN 1 ELSE Len(b.entries))
BlockNext(b, p) == ParseNextKey(b, p.restart, p.at + 1)

\* Mutation: it stops at the restart point.
BlockPrevRestart(b, p) ==
    LET before == {r \in 0 .. p.restart : RestartPoint(b, r) < p.at}
    IN  IF before = {} THEN Off
        ELSE ParseNextKey(b, Highest(before), RestartPoint(b, Highest(before)))

\* Back to the last restart point before the entry, and on from there.
BlockPrev(b, p) ==
    LET before == {r \in 0 .. p.restart : RestartPoint(b, r) < p.at}
    IN  IF before = {} THEN Off ELSE ParseNextKey(b, Highest(before), p.at - 1)

\* The binary search in the restart points for the last one before e.
RestartBefore(b, e) ==
    LET last == NumRestarts(b) - 1
        search[p \in (0 .. last) \X (0 .. last)] ==
            LET left == p[1]  right == p[2]  mid == (left + right + 1) \div 2
            IN  IF left >= right THEN left
                ELSE IF Before(b.entries[RestartPoint(b, mid)], e)
                THEN search[<<mid, right>>]
                ELSE search[<<left, mid - 1>>]
    IN  search[<<0, last>>]

BlockSeek(b, e) ==
    LET r     == RestartBefore(b, e)
        found == {i \in RestartPoint(b, r) .. Len(b.entries) : ~ Before(b.entries[i], e)}
    IN  IF found = {} THEN Off ELSE ParseNextKey(b, r, Lowest(found))

-----------------------------------------------------------------------------
(* TwoLevelIterator, over things with an iterator each: i is where the index is, *)
(* p where the iterator over the i-th thing is; firsts and lasts are the places   *)
(* at which each begins and ends, Off if it is empty.                          *)

SkipEmptyForward(firsts, i, p) ==
    IF p # Off THEN [at |-> i, in |-> p]
    ELSE LET on == {j \in DOMAIN firsts : j > i /\ firsts[j] # Off}
         IN  IF on = {} THEN Off ELSE [at |-> Lowest(on), in |-> firsts[Lowest(on)]]

SkipEmptyBackward(lasts, i, p) ==
    IF p # Off THEN [at |-> i, in |-> p]
    ELSE LET back == {j \in DOMAIN lasts : j < i /\ lasts[j] # Off}
         IN  IF back = {} THEN Off ELSE [at |-> Highest(back), in |-> lasts[Highest(back)]]

\* A table: the blocks, and for each a key that is not before its last entry and
\* before the first of the next block.
TableForward(t, i, p) ==
    SkipEmptyForward([j \in DOMAIN t.blocks |-> BlockFirst(t.blocks[j])], i, p)
TableBackward(t, i, p) ==
    SkipEmptyBackward([j \in DOMAIN t.blocks |-> BlockLast(t.blocks[j])], i, p)

TableFirst(t)   == TableForward(t, 0, Off)
TableLast(t)    == TableBackward(t, Len(t.blocks) + 1, Off)
TableNext(t, p) == TableForward(t, p.at, BlockNext(t.blocks[p.at], p.in))
TablePrev(t, p) == TableBackward(t, p.at, BlockPrev(t.blocks[p.at], p.in))

\* Mutation: what is not in the block that the index names is nowhere.
TableSeekInBlock(t, e) ==
    LET i == BlockSeek(t.index, e).at
    IN  IF i = 0 \/ BlockSeek(t.blocks[i], e) = Off THEN Off
        ELSE [at |-> i, in |-> BlockSeek(t.blocks[i], e)]

TableSeek(t, e) ==
    LET i == BlockSeek(t.index, e).at
    IN  IF i = 0 THEN Off ELSE TableForward(t, i, BlockSeek(t.blocks[i], e))

TableEntry(t, p) == t.blocks[p.at].entries[p.in.at]

\* A level: its files in order.
LevelForward(l, i, p)  == SkipEmptyForward([j \in DOMAIN l |-> TableFirst(l[j])], i, p)
LevelBackward(l, i, p) == SkipEmptyBackward([j \in DOMAIN l |-> TableLast(l[j])], i, p)

LevelFirst(l)   == LevelForward(l, 0, Off)
LevelLast(l)    == LevelBackward(l, Len(l) + 1, Off)
LevelNext(l, p) == LevelForward(l, p.at, TableNext(l[p.at], p.in))
LevelPrev(l, p) == LevelBackward(l, p.at, TablePrev(l[p.at], p.in))

Final(s)   == s[Len(s)]
Largest(t) == Final(Final(t.blocks).entries)

FindFile(l, e) ==
    LET from == {i \in DOMAIN l : ~ Before(Largest(l[i]), e)}
    IN  IF from = {} THEN Len(l) + 1 ELSE Lowest(from)

LevelSeek(l, e) ==
    LET i == FindFile(l, e)
    IN  IF i > Len(l) THEN Off ELSE LevelForward(l, i, TableSeek(l[i], e))

LevelEntry(l, p) == TableEntry(l[p.at], p.in)

-----------------------------------------------------------------------------
(* TableBuilder.                                                            *)

\* The entries in order, and a sequence cut into pieces of n, but for the last.
Sorted(es) ==
    [i \in 1 .. Cardinality(es) |->
        CHOOSE e \in es : Cardinality({o \in es : Before(o, e)}) = i - 1]

Pieces(s, n) ==
    [i \in 1 .. (Len(s) + n - 1) \div n |->
        SubSeq(s, 1 + (i - 1) * n, Lowest({i * n, Len(s)}))]

\* FindShortestSeparator and FindShortSuccessor: a user key between the two if
\* there is one, with the number that comes first.  Whether the code takes it depends
\* on the length of the keys; here it always does.
Shortened(e)    == [key |-> e.key + 1, seq |-> MaxSeq + 1]
Separator(e, f) == IF e.key + 1 < f.key THEN Shortened(e) ELSE e

\* A block is full with n entries.
TableOf(s, n) ==
    LET blocks == Pieces(s, n)
        key(i) == IF i < Len(blocks) THEN Separator(Final(blocks[i]), Head(blocks[i + 1]))
                  ELSE Shortened(Final(blocks[i]))
    IN  [blocks |-> [i \in DOMAIN blocks |-> Block(blocks[i], RestartInterval)],
         index  |-> Block([i \in DOMAIN blocks |-> key(i)], 1)]
=============================================================================
