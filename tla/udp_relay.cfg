SPECIFICATION MCSpec
CONSTANTS
    Sources = {client, clientPort2, stranger}
    PeerSources = {client, clientPort2}
    Dests = {d1, d2, d3}
    NoOne = NoOne
    MaxSessions = 2
    MaxDNS = 1
    MaxSockets = 4
    Second = {clientPort2}
INVARIANTS TypeOK TableSound AnswersOnlyToClient
PROPERTY TornDown
