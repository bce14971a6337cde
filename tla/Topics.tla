------------------------------- MODULE Topics -------------------------------
(***************************************************************************)
(* Topic strings of mosquitto 1.4.2: the checks a topic and a subscription *)
(* must pass, and the matcher the client library and the broker's access   *)
(* control use (lib/util_mosq.c).                                          *)
(*                                                                         *)
(* A string is a sequence of characters, because the matcher walks both    *)
(* strings character by character and its corner cases are about the last  *)
(* ones; a level is a string without "/".  Strings are never empty: the    *)
(* handlers turn an empty subscription and an empty topic down             *)
(* (read_handle_server.c:625, read_handle.c:105).                          *)
(***************************************************************************)
EXTENDS Integers, Sequences, FiniteSets, SequencesExt

Levels(str) ==
    \* the reference split: the maximal runs of characters other than "/"
    LET cuts == {i \in 1..Len(str) : str[i] = "/"} \cup {0, Len(str) + 1}
        cut(k) == CHOOSE i \in cuts : Cardinality({j \in cuts : j < i}) = k
    IN  [k \in 1..(Cardinality(cuts) - 1) |->
            SubSeq(str, cut(k - 1) + 1, cut(k) - 1)]

IsDollar(str) == Len(str) > 0 /\ str[1] = "$"

(***************************************************************************)
(* What MQTT calls a match: level by level, "+" stands for one level, a    *)
(* final "#" for any number of them, and topics that start with "$" are    *)
(* matched only by filters that do.                                        *)
(***************************************************************************)
Matches(filter, topic) ==
    LET f == Levels(filter)
        t == Levels(topic)
        multi == Last(f) = <<"#">>
        n == IF multi THEN Len(f) - 1 ELSE Len(f)
    IN  /\ IsDollar(filter) <=> IsDollar(topic)
        /\ Len(t) >= n /\ (multi \/ Len(t) = n)
        /\ \A k \in 1..n : f[k] \in {t[k], <<"+">>}

mosquitto_pub_topic_check(str) ==
    \A i \in 1..Len(str) : str[i] \notin {"+", "#"}

mosquitto_sub_topic_check(str) ==
    \A i \in 1..Len(str) :
        /\ str[i] \in {"+", "#"} => i = 1 \/ str[i-1] = "/"
        /\ str[i] = "+" => i = Len(str) \/ str[i+1] = "/"
        /\ str[i] = "#" => i = Len(str)

(***************************************************************************)
(* mosquitto_topic_matches_sub.  spos and tpos count the characters that   *)
(* have been passed; a pair of equal characters, a "+" and a "#" are the   *)
(* three ways on.                                                          *)
(***************************************************************************)
MatchFrom(sub, topic) ==
    LET slen == Len(sub)
        tlen == Len(topic)
        level(tpos) == CHOOSE e \in tpos..tlen :
                           /\ e = tlen \/ topic[e+1] = "/"
                           /\ \A i \in (tpos+1)..e : topic[i] # "/"
        from[spos \in 0..slen, tpos \in 0..tlen] ==
            /\ spos < slen /\ tpos < tlen
            /\ IF sub[spos+1] = topic[tpos+1]
               THEN \/ tpos = tlen - 1 /\ spos = slen - 3
                       /\ sub[spos+2] = "/" /\ sub[spos+3] = "#"
                    \/ spos + 1 = slen /\ tpos + 1 = tlen
                    \/ tpos + 1 = tlen /\ spos + 1 = slen - 1 /\ sub[spos+2] = "+"
                    \/ from[spos + 1, tpos + 1]
               ELSE IF sub[spos+1] = "+"
               THEN \/ level(tpos) = tlen /\ spos + 1 = slen
                    \/ from[spos + 1, level(tpos)]
               ELSE sub[spos+1] = "#" /\ spos + 1 = slen
    IN  from[0, 0]

\* Mutant: "$" is a character like any other.
mosquitto_topic_matches_subAll(sub, topic) == MatchFrom(sub, topic)

mosquitto_topic_matches_sub(sub, topic) ==
    /\ IsDollar(sub) <=> IsDollar(topic)
    /\ MatchFrom(sub, topic)
=============================================================================
