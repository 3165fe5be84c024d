-------------------------- MODULE MCServerAnyHost --------------------------
EXTENDS ServerAnyHost

\* The server looks at nothing but whether it accepts the hello.
MCPlugins == {[worker |-> TRUE, same |-> TRUE, protocol |-> TRUE, accepts |-> a] :
                 a \in BOOLEAN}
=============================================================================
