--------------------------- MODULE MCConversation ---------------------------
EXTENDS Conversation

\* Nothing, a text, tools alone and together, a text among them, a question or a
\* finalize call before other calls and a question after one.
MCAnswers ==
    {<<>>, <<"text">>, <<"query">>, <<"query", "text", "query">>,
     <<"query", "ask">>, <<"text", "ask", "query">>, <<"finalize", "query">>}
=============================================================================
