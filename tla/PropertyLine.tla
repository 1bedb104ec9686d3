---------------------------- MODULE PropertyLine ----------------------------
(***************************************************************************)
(* A line of a configuration file between fgets() and the item handler:    *)
(* property_read() (eproperty.c) with the helpers of estring.c.  A line is *)
(* a sequence of characters; "space" stands for a space or a tab, "return" *)
(* and "newline" for those, "hash" for '#', "equals" for '=', "a" and "b"  *)
(* for all that mean nothing.  Lines are shorter than the buffer.          *)
(***************************************************************************)
EXTENDS Integers, Sequences, SequencesExt, FiniteSetsExt

CONSTANT MaxText  \* bound: characters in a line

ASSUME LineAssumption == MaxText \in Nat

VARIABLE text     \* what fgets() has stored in buffer

Chars == {"space", "return", "newline", "hash", "equals", "a", "b"}

Whites == {"space", "return", "newline"}

(* The characters before the first that is not in cs; those up to the last. *)
DropLeading(s, cs) ==
  SubSeq(s, Min({i \in DOMAIN s : s[i] \notin cs} \cup {Len(s) + 1}), Len(s))

DropTrailing(s, cs) ==
  SubSeq(s, 1, Max({i \in DOMAIN s : s[i] \notin cs} \cup {0}))

IsBlank(s) == Range(s) \subseteq Whites

IsComment(s) == DropLeading(s, {"space"}) # <<>> /\ Head(DropLeading(s, {"space"})) = "hash"

DeleteComment(s) == SubSeq(s, 1, Min({i \in DOMAIN s : s[i] = "hash"} \cup {Len(s) + 1}) - 1)

(* trim_str(): only spaces and tabs go at the front. *)
TrimStr(s) == DropTrailing(DropLeading(s, {"space"}), Whites)

(* Mutant: the last such character instead of the first. *)
CharAtLast(s, c) == Max({i - 1 : i \in {j \in DOMAIN s : s[j] = c}} \cup {-1})

(* char_at(): an offset, -1 when there is none. *)
CharAt(s, c) ==
  LET at == {i \in DOMAIN s : s[i] = c}
  IN IF at = {} THEN -1 ELSE Min(at) - 1

Skipped == [key |-> <<>>, value |-> <<>>, item |-> FALSE, inside |-> TRUE]

(* What the item handler gets of a line.  Without '=' the byte before the   *)
(* line becomes the terminator and the whole line is both key and value;    *)
(* the loop of trim_str() that goes back over white space stops only at     *)
(* another character, so that without a key it leaves the buffer.           *)
PropertyItem(s) ==
  IF IsBlank(s) \/ IsComment(s) THEN Skipped
  ELSE LET line == TrimStr(DeleteComment(s))
           offset == CharAt(line, "equals")
           key == TrimStr(IF offset = -1 THEN line ELSE SubSeq(line, 1, offset))
       IN [key |-> key, value |-> TrimStr(SubSeq(line, offset + 2, Len(line))),
           item |-> TRUE,
           inside |-> key # <<>> /\ (offset # -1 \/ s[1] = "space")]

LineInit == text = <<>>

(* fgets(): up to and with the end of the line. *)
LineNext ==
  /\ Len(text) < MaxText
  /\ "newline" \notin Range(text)
  /\ \E c \in Chars : text' = Append(text, c)

LineSpec == LineInit /\ [][LineNext]_text

-----------------------------------------------------------------------------
(* w is s without the white space round it. *)
Within(w, s) == \E i \in 1..Len(s) + 1 : \E j \in i - 1..Len(s) :
  /\ w = SubSeq(s, i, j)
  /\ \A n \in 1..i - 1 : s[n] = "space"
  /\ \A n \in j + 1..Len(s) : s[n] \in Whites
  /\ w # <<>> => Head(w) # "space" /\ Last(w) \notin Whites

(* What a line says before its first '#', a key, the first '=' and a value, *)
(* is what the handler gets, and nothing outside the buffer is touched; a   *)
(* line that says nothing there is skipped; and a line that is neither goes *)
(* to the handler all the same, as key and value at once or without a key.  *)
LinesSplit ==
  LET r == PropertyItem(text)
      said == CHOOSE n \in 0..Len(text) :
                /\ n = Len(text) \/ text[n + 1] = "hash"
                /\ \A i \in 1..n : text[i] # "hash"
      before == SubSeq(text, 1, said)
  IN /\ \A i \in 1..said : text[i] # "space" => (r.item \/ IsBlank(text))
     /\ (\A i \in 1..said : text[i] = "space") => ~r.item
     /\ \A e \in 1..said :
          /\ text[e] = "equals"
          /\ \A i \in 1..e - 1 : text[i] # "equals"
          /\ \E i \in 1..e - 1 : text[i] \notin Whites
          => /\ r.item /\ r.inside
             /\ Within(r.key, SubSeq(before, 1, e - 1))
             /\ Within(r.value, SubSeq(before, e + 1, said))
     /\ r.item /\ "equals" \notin Range(before) =>
          Within(r.key, before) /\ r.value = r.key
=============================================================================
