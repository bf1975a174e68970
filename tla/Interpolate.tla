----------------------------- MODULE Interpolate -----------------------------
(***************************************************************************)
(* cps-config/interpolate.rs: the ${...} references of a configuration     *)
(* text.  A text is a sequence of tokens: "$", "{", "}", ":-", a blank,    *)
(* and words, the names of variables among them.  An environment maps the  *)
(* names it knows to texts.                                                *)
(***************************************************************************)
EXTENDS Integers, Sequences, FiniteSetsExt

Blank == " "

Trim(text) ==
  LET solid == {i \in DOMAIN text : text[i] # Blank}
  IN IF solid = {} THEN <<>> ELSE SubSeq(text, Min(solid), Max(solid))

(* The two alternates of pattern().                                        *)
IsEscape(text, i) == i < Len(text) /\ text[i] = "$" /\ text[i + 1] = "$"

Opens(text, i) == i < Len(text) /\ text[i] = "$" /\ text[i + 1] = "{"

Closings(text, i) == {j \in (i + 2)..Len(text) : text[j] = "}"}

IsReference(text, i) == Opens(text, i) /\ Closings(text, i) # {}

(* The name is what goes before the first :-, if any, without the blanks   *)
(* around it.                                                              *)
Marks(inner) == {j \in DOMAIN inner : inner[j] = ":-"}

NameIn(inner) ==
  Trim(IF Marks(inner) = {} THEN inner ELSE SubSeq(inner, 1, Min(Marks(inner)) - 1))

IsName(name) == name # <<>> /\ \A j \in DOMAIN name : name[j] # Blank

(* What stands for a reference that cannot be replaced.  No text holds it. *)
Error == "<error>"

Replacement(inner, environment) ==
  LET marks == Marks(inner)
      name == NameIn(inner)
      default == SubSeq(inner, Min(marks) + 1, Len(inner))
      isSet == Len(name) = 1 /\ name[1] \in DOMAIN environment
  IN CASE ~IsName(name) -> <<Error>>
       [] IsName(name) /\ isSet /\ (marks = {} \/ environment[name[1]] # <<>>) ->
            environment[name[1]]
       [] IsName(name) /\ isSet /\ marks # {} /\ environment[name[1]] = <<>> -> default
       [] IsName(name) /\ ~isSet -> IF marks = {} THEN <<Error>> ELSE default

(* replace_all: the matches from left to right, none inside another.       *)
Replaced(text, environment) ==
  LET From[i \in 1..(Len(text) + 2)] ==
        CASE i > Len(text) -> <<>>
          [] i <= Len(text) /\ IsEscape(text, i) -> <<"$">> \o From[i + 2]
          [] i <= Len(text) /\ IsReference(text, i) ->
               LET close == Min(Closings(text, i))
               IN Replacement(SubSeq(text, i + 2, close - 1), environment) \o From[close + 1]
          [] OTHER -> <<text[i]>> \o From[i + 1]
  IN From[1]

(* The texts interpolate_with refuses: an error of a reference, or a "${"  *)
(* in what came out of the replacements, wherever it came from.            *)
Refuses(text, environment) ==
  LET out == Replaced(text, environment)
  IN \E i \in DOMAIN out : out[i] = Error \/ Opens(out, i)
=============================================================================
