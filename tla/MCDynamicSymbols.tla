-------------------------- MODULE MCDynamicSymbols --------------------------
EXTENDS DynamicSymbols, TLC

\* 'a' and a UTF-8 lead byte, the byte a signed char turns negative.
MCBytes == {97, 195}

\* "abcdefgh": eight characters push elf_hash into its top nibble.
MCLongNames == {<<97, 98, 99, 100, 101, 102, 103, 104>>}

\* .symtab images by symbol index: the null symbol first, then a local and a
\* global of the same name (two static functions of two files, say).
MCSymtabChoices ==
    {(0 :> NoName @@ 1 :> <<97>> @@ 2 :> <<195>>),
     (0 :> NoName @@ 1 :> <<97, 195>> @@ 2 :> NoName @@ 3 :> <<97, 195>>)}
=============================================================================
