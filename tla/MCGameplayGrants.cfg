SPECIFICATION Spec
CONSTANTS
    Card = {"gather", "saw", "buy"}
    Order = {"a", "b"}
    Resource = {"wood", "plank"}
    Level <- MCLevel
    Cost <- MCCost
    Effects <- MCEffects
    Requirements <- MCRequirements
    MaxSessions = 2
    Worker = {w1, w2}
    Host = w1
    None = None
    ItemID = {"gold", "ore", "unknown"}
    Asset = {"gold", "ore"}
    Gold = "gold"
    Material = "ore"
    Start <- MCStart
    CardID = {"axe", "rare"}
    DefaultCard = {"axe"}
    DeckWish <- MCDecks
    Facility = {"mill"}
    Prices <- MCPrices
    MaxLevel <- MCMaxLevel
    MaxDeckSize = 2
    MinOffline = 2
    MaxOffline = 3
    GoldPerHour = 2
    MaterialPerHour = 1
    Hour = 3
    FirstClearRewards <- MCFirst
    RepeatRewards <- MCRepeat
    AssetWish <- MCWish
    OrderRewards <- MCOrderRewards
    Elsewhere <- MCElsewhere
    MaxClock = 3
    MaxCommands = 2
    LostReplies = 1
INVARIANTS
    RewardsGrantedOnce
CHECK_DEADLOCK FALSE
