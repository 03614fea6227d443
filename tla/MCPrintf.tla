------------------------------- MODULE MCPrintf -------------------------------
EXTENDS Printf

\* Numbers alone, together and between characters, a '%' before a '%', before
\* another letter and at the end, and nothing.
MCFormats ==
  {<<>>, <<"a">>, <<"%", "d">>, <<"%", "p">>, <<"%", "%", "d">>,
   <<"a", "%", "d", "%", "p", "p">>, <<"%", "%", "%", "d", "d">>,
   <<"%", "a", "%", "p">>, <<"a", "%">>, <<"%", "%">>}
MCBehind == <<"b", "NUL">>
==============================================================================
