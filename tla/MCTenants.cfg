CONSTANTS
    card = card
    spare = spare
    agent = agent
    render = render
    Cards = {card, spare}
    Tenants = {agent, render}
    FamilyOf <- Apart
    Wants <- Named
    TierOf <- Tiers
    Ttl = 4
    Stoppers = {agent}
    MaxIds = 2
    MaxFaults = 1
    MaxDeaths = 1
    None = None
SPECIFICATION FairSpec
INVARIANTS CardsInTurn
PROPERTIES LeasesEnd LostIsNoticed
