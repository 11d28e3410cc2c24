------------------------------- MODULE Corpus -------------------------------
(***************************************************************************)
(* From a data path to tokens: common/data_loader.rs and common/bpe.rs.    *)
(*                                                                         *)
(* A text is a sequence of bytes (the texts modelled are ASCII, where a    *)
(* char is a byte).  A JSONL line is the sequence of its lexemes, enough   *)
(* to say which of them extract_text_field takes; a token of the BPE       *)
(* alphabet is a sequence of code points.                                  *)
(***************************************************************************)
EXTENDS Integers, Sequences, FiniteSets, SequencesExt, FiniteSetsExt

NoText == <<-1>>   \* a line without a text field
Exit   == <<-2>>   \* in place of a text: the loader ends the process

-----------------------------------------------------------------------------
(* JSONL.  Lexemes: [kind |-> "key"] is the quoted word "text" wherever it  *)
(* stands, "colon" and "other" stand for themselves, and                    *)
(* [kind |-> "string", text, closed] is a quoted string.  A blank line and  *)
(* one that cannot be read both have no lexemes.                            *)

ExtractText(line) ==
    LET keys == {i \in DOMAIN line : line[i].kind = "key"}
        k    == Min(keys)
    IN  IF /\ keys # {} /\ k + 2 <= Len(line)
           /\ line[k + 1].kind = "colon"
           /\ line[k + 2].kind = "string" /\ line[k + 2].closed
        THEN line[k + 2].text
        ELSE NoText

Backslash == 92
Escaped(c) == CASE c = 110 -> <<10>>            \* n
                [] c = 116 -> <<9>>             \* t
                [] c = 114 -> <<13>>            \* r
                [] c \in {34, 92, 47} -> <<c>>  \* quote, backslash, slash
                [] OTHER -> <<Backslash, c>>

Unescape(s) ==
    LET step(acc, c) ==
          IF acc.esc THEN [out |-> acc.out \o Escaped(c), esc |-> FALSE]
          ELSE IF c = Backslash THEN [acc EXCEPT !.esc = TRUE]
          ELSE [acc EXCEPT !.out = Append(@, c)]
        r == FoldLeft(step, [out |-> <<>>, esc |-> FALSE], s)
    IN  IF r.esc THEN Append(r.out, Backslash) ELSE r.out

JsonlText(lines) ==
    LET add(text, line) ==
          LET t == ExtractText(line)
          IN  IF t = NoText THEN text
              ELSE (IF text = <<>> THEN <<>> ELSE Append(text, 10)) \o Unescape(t)
    IN  FoldLeft(add, <<>>, lines)

\* One file: unreadable JSONL and an unreadable file outside a directory end
\* the process, an unreadable .txt inside one counts as empty.
FileText(f, inDir) ==
    IF ~f.readable
    THEN IF inDir /\ f.ext # "jsonl" THEN <<>> ELSE Exit
    ELSE IF f.ext = "jsonl" THEN JsonlText(f.body) ELSE f.body

DirectoryText(files) ==
    LET kept  == SetToSortSeq({f \in files : f.ext \in {"txt", "jsonl"}},
                              LAMBDA f, g : f.name < g.name)
        texts == [i \in DOMAIN kept |-> FileText(kept[i], TRUE)]
    IN  IF kept = <<>> \/ Exit \in ToSet(texts) THEN Exit ELSE FlattenSeq(texts)

SourceText(src) ==
    IF src.dir THEN DirectoryText(src.files) ELSE FileText(src.file, FALSE)

-----------------------------------------------------------------------------
(* Tokens.  Both tokenizers return the ids, counted from 0, and the size of *)
(* their vocabulary.                                                        *)

CharTable(text) == SetToSortSeq(ToSet(text), <)

TokenizeChars(text) ==
    LET table == CharTable(text)
    IN  [toks  |-> [i \in DOMAIN text |-> CHOOSE k \in 0 .. Len(table) - 1 :
                                              table[k + 1] = text[i]],
         vocab |-> Len(table)]

\* The byte alphabet: printable bytes stand for themselves, the others take
\* the code points from 256 on, in order.
Direct == (33 .. 126) \cup (161 .. 172) \cup (174 .. 255)
CodePoint(b) == IF b \in Direct THEN b
                ELSE 256 + Cardinality({c \in 0 .. b - 1 : c \notin Direct})

Whitespace == {32, 10, 13, 9}
PreTokenize(text) ==
    LET add(acc, c) ==
          IF c \in Whitespace /\ acc.cur # <<>>
          THEN [done |-> Append(acc.done, acc.cur), cur |-> <<c>>]
          ELSE [acc EXCEPT !.cur = Append(@, c)]
        r == FoldLeft(add, [done |-> <<>>, cur |-> <<>>], text)
    IN  IF r.cur = <<>> THEN r.done ELSE Append(r.done, r.cur)

\* A tokenizer file: the vocabulary (string of id i at index i + 1) and the
\* merges in order of rank.
IdOf(tk, s) == IF s \in ToSet(tk.vocab)
               THEN (CHOOSE i \in DOMAIN tk.vocab : tk.vocab[i] = s) - 1
               ELSE 0

Mergeable(tk, pieces, r) ==
    {i \in 1 .. Len(pieces) - 1 : tk.merges[r] = <<pieces[i], pieces[i + 1]>>}

Joined(pieces, i) ==
    SubSeq(pieces, 1, i - 1) \o <<pieces[i] \o pieces[i + 1]>>
        \o SubSeq(pieces, i + 2, Len(pieces))

\* The leftmost of the pairs with the lowest rank.
MergeOnce(tk, pieces) ==
    LET ranks == {r \in DOMAIN tk.merges : Mergeable(tk, pieces, r) # {}}
    IN  IF ranks = {} THEN pieces
        ELSE Joined(pieces, Min(Mergeable(tk, pieces, Min(ranks))))

\* Every merge makes the pieces fewer.
Merged(tk, pieces) ==
    LET after[k \in 0 .. Len(pieces)] ==
          IF k = 0 THEN pieces ELSE MergeOnce(tk, after[k - 1])
    IN  after[Len(pieces)]

EncodeChunk(tk, chunk) ==
    LET pieces == Merged(tk, [i \in DOMAIN chunk |-> <<CodePoint(chunk[i])>>])
    IN  [i \in DOMAIN pieces |-> IdOf(tk, pieces[i])]

BpeEncode(tk, text) ==
    LET chunks == PreTokenize(text)
    IN  FlattenSeq([i \in DOMAIN chunks |-> EncodeChunk(tk, chunks[i])])

BpeDecode(tk, toks) ==
    LET points == FlattenSeq([i \in DOMAIN toks |->
                     IF toks[i] < Len(tk.vocab) THEN tk.vocab[toks[i] + 1] ELSE <<>>])
        known  == SelectSeq(points, LAMBDA p : \E b \in 0 .. 255 : CodePoint(b) = p)
    IN  [i \in DOMAIN known |-> CHOOSE b \in 0 .. 255 : CodePoint(b) = known[i]]
=============================================================================
