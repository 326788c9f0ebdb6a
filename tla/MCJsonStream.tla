---------------------------- MODULE MCJsonStream ----------------------------
EXTENDS JsonStream

\* Every text of up to three bytes of arrays and numbers, and longer ones with
\* objects, keys, words and numbers that end at the end of the stream, valid and not.
Small == UNION {[1..n -> {"[", "]", ",", "0", " "}] : n \in 0..3}
Chosen ==
    {<<"[", "0", ",", "[", "]", "]">>, <<"[", "0", ",", "]">>, <<"[", "0", " ", ",", "1", "]", "0">>,
     <<"{", Quote, Quote, ":", "0", "}">>, <<"{", Quote, Quote, ":", "[", "]", ",", Quote, "x", Quote, ":", "1", "}">>,
     <<"{", Quote, Quote, ",", "0", "}">>, <<"{", Quote, Quote, ":", "0", ",", "}">>, <<"{", "0", "}">>,
     <<"{", Quote, Backslash, "tab">>, <<"[", "}">>, <<"{", "}", "]">>,
     <<"-", "1", ".", "0", "e", "1", " ", "0">>, <<"0", "1">>, <<"1", ".", "]">>, <<"1", "e">>,
     <<Quote, Backslash, Quote, "[", Quote>>, <<"n", "u", "l", "l", "0">>, <<"n", "u", "l">>,
     <<"[", "t", "r", "u", "e", " ", "]">>}
MCInputs == Small \cup Chosen
=============================================================================
