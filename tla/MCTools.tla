------------------------------ MODULE MCTools -------------------------------
EXTENDS Tools

CONSTANTS r1, c1, c2

\* One call of SpartanRadio.py and two of macula_radio.py. Every request there is,
\* and what can follow it, is in one of these jobs.
MCJobs == [c \in Calls |->
  CASE c = r1 -> {<<"upload", "resolve", "post", "cc">>}
    [] c = c1 -> {<<"register">>}
    [] c = c2 -> {<<"read", "resolve">>, <<"upload", "post">>}]

=============================================================================
