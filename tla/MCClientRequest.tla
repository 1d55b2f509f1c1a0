--------------------------- MODULE MCClientRequest ---------------------------
EXTENDS ClientRequest

MCAllClasses ==
    {<<"Secrets", c>> : c \in DOMAIN Secrets!Requests}
        \cup {<<"Crypto", c>> : c \in DOMAIN Crypto!Requests}

MCVerify == {<<"Crypto", "VerifyRequest">>}
=============================================================================
