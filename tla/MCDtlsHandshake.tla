-------------------------- MODULE MCDtlsHandshake --------------------------
(* A certificate so long that Flight 4 takes two datagrams and Flight 5 three. *)
EXTENDS DtlsHandshake

MCSize ==
    [t \in ContentType |->
       CASE t = "Certificate" -> 5
         [] t \in {"ServerKeyExchange", "CertificateVerify"} -> 4
         [] t = "ServerHelloDone" -> 1
         [] OTHER -> 2]
=============================================================================
