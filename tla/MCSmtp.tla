------------------------------- MODULE MCSmtp -------------------------------
EXTENDS Smtp

\* Client 1, on the submission port, logs in and pipelines a message that is
\* too large, one that is not, and QUIT; client 2 is thrown out for its
\* errors; client 3 comes from the address of client 1.
MCScript ==
    <<<<<<"EHLO", "">>, <<"AUTH", "good">>, <<"MAIL", "a">>, <<"RCPT", "remote">>,
        <<"DATA", "">>, <<"TEXT", "x">>, <<"TEXT", "y">>, <<"MAIL", "b">>,
        <<"RCPT", "local">>, <<"DATA", "">>, <<".", "">>, <<"QUIT", "">>>>,
      <<<<"MAIL", "c">>, <<"MAIL", "c">>>>,
      <<<<"RSET", "">>>>>>
MCIpOf == <<"here", "out", "here">>
=============================================================================
