------------------------------- MODULE Service ------------------------------
(***************************************************************************)
(* service_t (src/app/service.cpp): the answer to a request.               *)
(*                                                                         *)
(* A request is the sequence of its white-space separated words; a word    *)
(* made of digits is the number it spells, any other word is Word.  A      *)
(* request as client_main sends it neither starts nor ends with a space.   *)
(***************************************************************************)
EXTENDS Integers, SequencesExt

CONSTANT Width      \* bits of an unsigned

ASSUME ServiceAssumption == Width \in Nat \ {0, 1} /\ 2^Width \in Nat \ {0}

Word == -1

\* The largest int, and with it the largest number std::stoi converts.
IntMax == 2^(Width - 1) - 1

is_number(w) == w # Word

\* copy_if, from the first word to the last.
parse_ints(req) ==
    FoldLeft(LAMBDA ints, w : IF is_number(w) THEN Append(ints, w) ELSE ints, << >>, req)

\* std::stoi throws out_of_range, and nothing catches it.
ParseThrows(req) == \E n \in Range(parse_ints(req)) : n > IntMax

\* std::sort: a number goes behind the smaller ones.
Rank(ints, i) ==
    Cardinality({j \in DOMAIN ints : ints[j] < ints[i] \/ (ints[j] = ints[i] /\ j <= i)})

sort(ints) == [p \in DOMAIN ints |-> ints[CHOOSE i \in DOMAIN ints : Rank(ints, i) = p]]

\* Mutant of SumOf: the sum is taken in an int that saturates.
Saturated(ints) ==
    FoldLeft(LAMBDA sum, n : IF sum + n > IntMax THEN IntMax ELSE sum + n, 0, ints)

\* unsigned addition, one number after the other.
SumOf(ints) == FoldLeft(LAMBDA sum, n : (sum + n) % 2^Width, 0, ints)

\* A request without numbers is sent back; otherwise the sorted numbers and
\* their sum are sent.
create_response(req) ==
    LET ints == sort(parse_ints(req))
    IN  IF ints = << >> THEN [echo |-> req, ints |-> << >>, sum |-> 0]
                        ELSE [echo |-> << >>, ints |-> ints, sum |-> SumOf(ints)]

------------------------------------------------------------------------------
(* std::string::operator+= on two requests: the last word of the one and    *)
(* the first of the other become one word.                                  *)
PowerOfTen(n) ==
    LET power[k \in 0..n] == IF k < 10 THEN 10 ELSE 10 * power[k \div 10]
    IN  power[n]

Glue(x, y) == IF Word \in {x, y} THEN Word ELSE x * PowerOfTen(y) + y

Join(a, b) ==
    IF a = << >> THEN b
    ELSE IF b = << >> THEN a
    ELSE Front(a) \o <<Glue(Last(a), Head(b))>> \o Tail(b)

------------------------------------------------------------------------------
(* What an answer should be, without the algorithm.                         *)
Occurrences(s, n) == Cardinality({i \in DOMAIN s : s[i] = n})

IsAnswer(req, resp) ==
    LET numbers == {i \in DOMAIN req : req[i] # Word}
    IN  IF numbers = {}
          THEN resp.echo = req /\ resp.ints = << >>
          ELSE /\ Len(resp.ints) = Cardinality(numbers)
               /\ \A i \in numbers :
                     Occurrences(resp.ints, req[i]) = Occurrences(req, req[i])
               /\ \A i, j \in DOMAIN resp.ints : i < j => resp.ints[i] <= resp.ints[j]
               /\ (MapThenSumSet(LAMBDA i : req[i], numbers) - resp.sum) % 2^Width = 0
               /\ resp.sum \in 0..2^Width - 1
==============================================================================
