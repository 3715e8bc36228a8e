--------------------------- MODULE RecordingCodes ---------------------------
(***************************************************************************)
(* The codes of recordings (archive/recording_codes.py) as readers and     *)
(* bots write them, the configuration of prefixes they are scoped by, and  *)
(* the check before a code is shown (viewer/app/recording_number.py).      *)
(* Which number a recording is given is RecordingLifecycle's subject.      *)
(*                                                                         *)
(* A text is what the expressions tell apart: the word before the dash (or *)
(* Bare), how many digits, and their number.                               *)
(***************************************************************************)
EXTENDS Naturals, FiniteSets

CONSTANTS
  Base,          \* ten
  CodeWidth,     \* CODE_WIDTH, a display width and not a limit
  MaxDigits,     \* MAX_DIGITS
  Prefixes,      \* words _PREFIX_RE takes
  LongPrefixes,  \* the ones of more than one letter
  OtherWords,    \* words it does not take
  Tenants

Bare == "bare"
NoPrefix == "none"
NoCode == [word |-> NoPrefix, digits |-> 0, number |-> 0]

ASSUME CodesAssumption ==
  /\ Base \in Nat \ {0, 1} /\ CodeWidth \in Nat \ {0} /\ MaxDigits \in Nat /\ CodeWidth <= MaxDigits
  /\ LongPrefixes \subseteq Prefixes /\ Prefixes \cap OtherWords = {}
  /\ {Bare, NoPrefix} \cap (Prefixes \cup OtherWords) = {}

\* How many numbers d digits can write.
Power[d \in Nat] == IF d = 0 THEN 1 ELSE Base * Power[d - 1]

Texts == {t \in [word : Prefixes \cup OtherWords \cup {Bare}, digits : 1 .. MaxDigits + 1,
                 number : 0 .. Power[MaxDigits + 1] - 1] : t.number < Power[t.digits]}

DigitsOf(number) == CHOOSE d \in 1 .. MaxDigits + 1 :
                      number < Power[d] /\ (d > 1 => number >= Power[d - 1])

\* Padded with zeros to the width, and longer when the number is.
format_code(prefix, number) ==
  [word |-> prefix, digits |-> IF DigitsOf(number) < CodeWidth THEN CodeWidth ELSE DigitsOf(number),
   number |-> number]

\* The canonical form in any width, or the number alone; anything else is
\* InvalidCodeError before the archive is asked, and without a
\* prefix of its own a process takes no text at all.
parse_code(text, scope) ==
  IF scope \in Prefixes /\ text.digits <= MaxDigits /\ text.number >= 1 /\ text.word \in {scope, Bare}
  THEN format_code(scope, text.number)
  ELSE NoCode

\* The recording a caller's text names; `numbered` is the archive's column.
resolve(text, scope, numbered) ==
  {r \in DOMAIN numbered : numbered[r] = parse_code(text, scope) /\ numbered[r] # NoCode}

\* RECORDING_CODE_PREFIXES_JSON: pairs of a tenant and a word, in any order and
\* with spaces around the tenant's name or not.  One bad pair refuses it all.
prefixes(pairs) ==
  IF /\ pairs # {}
     /\ \A p \in pairs : p.word \in Prefixes
     /\ \A p, q \in pairs : p # q => p.tenant # q.tenant /\ p.word # q.word
  THEN [t \in {p.tenant : p \in pairs} |-> (CHOOSE p \in pairs : p.tenant = t).word]
  ELSE <<>>

prefix_for(tenant, pairs) ==
  IF tenant \in DOMAIN prefixes(pairs) THEN prefixes(pairs)[tenant] ELSE NoPrefix

\* What the viewer shows of a stored code: one letter and four to six digits.
public(code) ==
  IF code # NoCode /\ code.word \in Prefixes \ LongPrefixes /\ code.digits \in CodeWidth .. MaxDigits
  THEN code ELSE NoCode

(***************************************************************************)
(* What callers rely on.                                                   *)
(***************************************************************************)

Numbers == 1 .. Power[MaxDigits] - 1

\* Every code this archive gives out comes back as itself, however many digits
\* it is said with, alone or after the prefix, and no text is two codes.
RoundTrips ==
  \A scope \in Prefixes, n \in Numbers :
    /\ parse_code(format_code(scope, n), scope) = format_code(scope, n)
    /\ \A t \in Texts : parse_code(t, scope) = format_code(scope, n)
         <=> t.number = n /\ t.word \in {scope, Bare} /\ t.digits <= MaxDigits

\* Under one configuration no written code is accepted by two tenants.
NoCrossTenant ==
  \A pairs \in SUBSET [tenant : Tenants, word : Prefixes \cup OtherWords, spaced : BOOLEAN] :
    Cardinality(pairs) <= 3 =>
      \A t, u \in Tenants : t # u =>
        \A text \in {format_code(w, n) : w \in Prefixes, n \in {1, Base}} :
          parse_code(text, prefix_for(t, pairs)) = NoCode
            \/ parse_code(text, prefix_for(u, pairs)) = NoCode

\* Two recordings with different codes are never one text's answer.
ResolvesToOne ==
  \A scope \in Prefixes, a, b \in {1, 2, Base} : a # b =>
    \A t \in Texts : Cardinality(resolve(t, scope,
        [r \in {"first", "second"} |-> format_code(scope, IF r = "first" THEN a ELSE b)])) <= 1

\* Not kept by the code: what the archive gives out the viewer shows.  It drops
\* every code whose prefix has more than one character (recording_number.py
\* "a value that is not a code is dropped").
CodesAreShown ==
  \A scope \in Prefixes, n \in Numbers : public(format_code(scope, n)) = format_code(scope, n)
=============================================================================
