------------------------------ MODULE Grammar -------------------------------
(***************************************************************************)
(* The textual grammar of instructions (templemeads/src/grammar.rs):       *)
(* Instruction::new parses a command, Display prints one, and serde sends  *)
(* an instruction as its printed form, so every hop prints and parses it.  *)
(*                                                                         *)
(* A string is a sequence of characters from a small alphabet that keeps   *)
(* every character the parser treats apart:                                *)
(*   "u"   a letter,                                                       *)
(*   "."   the UserIdentifier separator,                                   *)
(*   ":"   the UserMapping separator,                                      *)
(*   " "   the space Instruction::new splits on,                           *)
(*   "w"   any other whitespace (a tab), which trim() removes but the      *)
(*         split does not see.                                             *)
(* A verb is one symbol standing for its keyword: "A" add_user, "R"        *)
(* remove_user, "L" add_local_user, "M" remove_local_user, "H"             *)
(* update_homedir; "x" is any other word.                                  *)
(***************************************************************************)
EXTENDS Naturals, Sequences, SequencesExt

CONSTANTS
    Inputs      \* the command strings given to Instruction::new

Chars == {"u", ".", ":", " ", "w"}
Ws    == {" ", "w"}
Verbs == {"A", "R", "L", "M", "H", "x"}

ASSUME GrammarAssumption == Inputs \subseteq Seq(Chars \cup Verbs)

\* str::split(c): the pieces between the occurrences of c (one piece, the
\* whole string, when c does not occur).
Split(s, c) ==
    LET cuts == <<0>> \o SetToSortSeq({i \in 1..Len(s) : s[i] = c}, <) \o <<Len(s) + 1>>
    IN  [k \in 1..Len(cuts) - 1 |-> SubSeq(s, cuts[k] + 1, cuts[k + 1] - 1)]

\* [&str]::join(c).
Join(parts, c) ==
    IF parts = <<>> THEN <<>>
    ELSE FoldLeft(LAMBDA acc, p : acc \o <<c>> \o p, Head(parts), Tail(parts))

\* str::trim: leading and trailing whitespace removed.
Trim(s) ==
    LET kept == {i \in 1..Len(s) : s[i] \notin Ws}
    IN  IF kept = {} THEN <<>> ELSE SubSeq(s, Min(kept), Max(kept))

\* A field the parsers accept: trimmed and not empty.
Field == {f \in Seq(Chars) : f # <<>> /\ f = Trim(f)}

UserRec    == [username : Field, project : Field, portal : Field]
MappingRec == [user : UserRec, local_user : Field, local_project : Field]

Invalid == [verb |-> "invalid"]
Err     == [error |-> TRUE]

Instructions ==
    {Invalid} \cup
    [verb : {"A", "R"}, user : UserRec] \cup
    [verb : {"L", "M"}, mapping : MappingRec] \cup
    [verb : {"H"}, user : UserRec, homedir : Field]

\* Mutant: an empty username is not refused.
ParseUserNoEmptyCheck(s) ==
    LET parts == Split(s, ".") IN
    IF Len(parts) # 3 \/ Trim(parts[2]) = <<>> \/ Trim(parts[3]) = <<>>
        THEN Err
        ELSE [username |-> Trim(parts[1]), project |-> Trim(parts[2]),
              portal |-> Trim(parts[3])]

\* UserIdentifier::parse: three '.'-separated fields, each trimmed and
\* none empty.
ParseUser(s) ==
    LET parts == Split(s, ".") IN
    IF Len(parts) # 3 \/ \E k \in 1..3 : Trim(parts[k]) = <<>>
        THEN Err
        ELSE [username |-> Trim(parts[1]), project |-> Trim(parts[2]),
              portal |-> Trim(parts[3])]

\* UserMapping::parse: a user identifier and two ':'-separated local
\* names, trimmed and not empty.
ParseMapping(s) ==
    LET parts == Split(s, ":")
        user  == IF Len(parts) = 3 THEN ParseUser(parts[1]) ELSE Err
    IN  IF Len(parts) # 3 \/ user = Err \/ \E k \in 2..3 : Trim(parts[k]) = <<>>
            THEN Err
            ELSE [user |-> user, local_user |-> Trim(parts[2]),
                  local_project |-> Trim(parts[3])]

(***************************************************************************)
(* Instruction::new: the first ' '-separated word is the verb; add_user    *)
(* and the others parse the rest of the words joined again with ' ';       *)
(* update_homedir takes the second word as the user and the trimmed third  *)
(* as the home directory.  Whatever fails to parse is Invalid.             *)
(***************************************************************************)
New(s) ==
    LET parts == Split(s, " ")
        verb  == parts[1]
        rest  == Join(Tail(parts), " ")
        user  == ParseUser(rest)
        map   == ParseMapping(rest)
    IN
    CASE verb \in {<<"A">>, <<"R">>} ->
            IF user = Err THEN Invalid ELSE [verb |-> verb[1], user |-> user]
      [] verb \in {<<"L">>, <<"M">>} ->
            IF map = Err THEN Invalid ELSE [verb |-> verb[1], mapping |-> map]
      [] verb = <<"H">> ->
            IF Len(parts) < 3 \/ Trim(parts[3]) = <<>> \/ ParseUser(parts[2]) = Err
                THEN Invalid
                ELSE [verb |-> "H", user |-> ParseUser(parts[2]),
                      homedir |-> Trim(parts[3])]
      [] OTHER -> Invalid

\* Display of UserIdentifier and UserMapping.
UserStr(u)    == u.username \o <<".">> \o u.project \o <<".">> \o u.portal
MappingStr(m) == UserStr(m.user) \o <<":">> \o m.local_user \o <<":">> \o m.local_project

\* Mutant: update_homedir printed with the home directory first.
DisplayHomedirFirst(i) ==
    CASE i.verb \in {"A", "R"} -> <<i.verb, " ">> \o UserStr(i.user)
      [] i.verb \in {"L", "M"} -> <<i.verb, " ">> \o MappingStr(i.mapping)
      [] i.verb = "H"          -> <<"H", " ">> \o i.homedir \o <<" ">> \o UserStr(i.user)
      [] OTHER                 -> <<"x">>

\* Display of Instruction ("invalid" is a word the parser does not know).
Display(i) ==
    CASE i.verb \in {"A", "R"} -> <<i.verb, " ">> \o UserStr(i.user)
      [] i.verb \in {"L", "M"} -> <<i.verb, " ">> \o MappingStr(i.mapping)
      [] i.verb = "H"          -> <<"H", " ">> \o UserStr(i.user) \o <<" ">> \o i.homedir
      [] OTHER                 -> <<"x">>

-----------------------------------------------------------------------------
(***************************************************************************)
(* An instruction on its way between agents: text is the string received, *)
(* parsed what Instruction::new made of it (None before the parse), and    *)
(* sent the instruction the sending side printed (None for the command     *)
(* typed at the bridge).                                                   *)
(***************************************************************************)
VARIABLES text, parsed, sent

vars == <<text, parsed, sent>>

None == [verb |-> "none"]

Init ==
    /\ text \in Inputs
    /\ parsed = None
    /\ sent = None

\* The receiving side deserialises the instruction (Instruction::new).
Parse ==
    /\ parsed = None
    /\ parsed' = New(text)
    /\ UNCHANGED <<text, sent>>

\* A valid instruction is serialised to the next hop (Display).
Forward ==
    /\ parsed \notin {None, Invalid}
    /\ text' = Display(parsed)
    /\ sent' = parsed
    /\ parsed' = None

Next == Parse \/ Forward

Spec == Init /\ [][Next]_vars

-----------------------------------------------------------------------------
TypeOK ==
    /\ text \in Seq(Chars \cup Verbs)
    /\ parsed \in Instructions \cup {None}
    /\ sent \in Instructions \cup {None}

(***************************************************************************)
(* Spec section 8, round-trip law: parse(print(i)) = i.  Every             *)
(* instruction that Instruction::new makes of a command arrives unchanged  *)
(* at the next hop, after Display and a second Instruction::new.           *)
(***************************************************************************)
RoundTrip ==
    sent # None /\ parsed # None => parsed = sent

\* The string with its whitespace taken out.
StripWs(s) == SelectSeq(s, LAMBDA ch : ch \notin Ws)

(***************************************************************************)
(* Spec section 6: parsers reject missing or malformed fields.  An         *)
(* accepted command holds nothing but the fields of the instruction it     *)
(* becomes: apart from whitespace, it is that instruction's printed form.  *)
(***************************************************************************)
NothingDropped ==
    parsed \notin {None, Invalid} => StripWs(text) = StripWs(Display(parsed))

=============================================================================
